---- MODULE Spec2Model ----
(***************************************************************************)
(* Verification model of the exam-problem viewer (keyhoney/sol).           *)
(*                                                                         *)
(*   Spec      - UIState (src/js/pdfViewer.js) driven through its public   *)
(*               setters, observed by passive listeners that may throw.    *)
(*   SpecTopDown - as Spec, with callers that select a month only under a  *)
(*               year and a question only under a year and a month.        *)
(*   SpecApp   - the assembled application: UIState with the listeners of  *)
(*               HeaderController, ContentController and App, the DOM      *)
(*               events that drive them and the asynchronous loads.        *)
(*   SpecCache - the image, PDF-document and rendered-page caches.         *)
(*   SpecRetry - the retry loops of App and ContentController.             *)
(*   SpecTimeout - App.withTimeout.                                        *)
(*   SpecPager - the pager of PDFViewer: loads, renders, zoom, hidePDF.    *)
(*   SpecPagerFair - SpecPager with fair timers and renders.               *)
(*   SpecCatalog - DataManager: catalog loads and queries.                 *)
(*   SpecPaths - the resource paths of ProblemData.                        *)
(*   SpecTeardown - the interval timers, the caches and beforeunload.      *)
(***************************************************************************)
EXTENDS Integers, Sequences, FiniteSets, TLC

\* ------------------------------------------------------------------------
\* Bounds
\* ------------------------------------------------------------------------
\* number of passive listeners registered on the UIState under Spec
NumObservers == 2

\* ------------------------------------------------------------------------
\* Values
\* ------------------------------------------------------------------------
\* JavaScript null for the string-valued fields
NULL == "null"

Years == {"2021", "2022"}
Months == {"6"}
Questions == {"3"}
Messages == {"error"}

\* A ProblemData object: id stands for the object's identity (reference)
ProblemData(id, year, month, questionNumber) ==
    [id |-> id, year |-> year, month |-> month, questionNumber |-> questionNumber]

\* null in a ProblemData-valued field
NoProblem == ProblemData(0, NULL, NULL, NULL)

\* the ProblemData object the callers of Spec pass to setCurrentProblem
ProblemRefs == {ProblemData(1, "2022", "6", "3")}

Properties == {"selectedYear", "selectedMonth", "selectedQuestion", "isLoading",
               "isSolutionVisible", "currentProblem", "errorMessage",
               "isPdfLoading", "pdfError"}

VARIABLES
    ui,                    \* the fields of the UIState object
    stateChangeListeners,  \* UIState.stateChangeListeners, in registration order
    log,                   \* listener calls made during the last operation
    lastCall,              \* the last operation: name, argument, state before
    threw,                 \* TRUE iff the last operation ended by throwing
    faulty,                \* the listeners that throw when they are called
    app                    \* the application's state outside the UIState object

varsUI == <<ui, stateChangeListeners, log, lastCall, threw, faulty>>

\* UIState.constructor
UIStateInit ==
    [selectedYear |-> NULL, selectedMonth |-> NULL, selectedQuestion |-> NULL,
     isLoading |-> FALSE, isSolutionVisible |-> FALSE, currentProblem |-> NoProblem,
     errorMessage |-> NULL, isPdfLoading |-> FALSE, pdfError |-> NULL]

Observers == {"observer"} \X (1..NumObservers)

\* the choices of listeners that throw during one call: none, or one of them
FaultChoices == {{}} \cup {{l} : l \in Observers}

\* the observers in registration order
ObserverList == [i \in 1..NumObservers |-> <<"observer", i>>]

\* ------------------------------------------------------------------------
\* The machine state threaded through a synchronous run of handler code:
\*   ui, listeners : the UIState object
\*   log           : listener calls so far
\*   exc           : an exception is propagating
\*   faulty        : the listeners that throw when called
\*   app           : the application's state outside the UIState object
\* ------------------------------------------------------------------------
Machine(u, listeners, throwing, a) ==
    [ui |-> u, listeners |-> listeners, log |-> <<>>, exc |-> FALSE, faulty |-> throwing,
     app |-> a]

RECURSIVE Apply(_, _, _)

\* ------------------------------------------------------------------------
\* The assembled application (App.initializeModules, App.setupEventHandlers).
\* Field app of the machine state holds what the handlers read and write
\* outside the UIState object:
\*   monthOptions, questionOptions : the dropdown offers the data's options
\*   solutionBtn                   : the solution button is enabled
\*   imageSrc, imageEvent          : problemImage.src, and whether its load or
\*                                   error event is still to come
\*   imageCache                    : the keys of ContentController.imageCache
\*   preloads                      : per path, the displayProblemImage calls
\*                                   awaiting preloadImage
\*   isLoading                     : PDFViewer.isLoading
\*   solutionLoads                 : the solution loads awaiting PDFViewer.loadPDF
\*                                   or the backoff timer
\*   microtasks                    : continuations of promises already settled
\* The application reads fewer images than the cache holds, so no key is
\* evicted here; eviction is the subject of SpecCache.  PDFViewer.loadPDF
\* awaits pdf.js whether or not the document is cached, so every load may
\* resolve or reject.  showPDF, hidePDF and the other methods that only
\* restyle the page are left out.  Calls of the UIState's methods are written
\* Apply("method", argument, s).
\* ------------------------------------------------------------------------
\* loadAndShowSolution calls retryPdfLoadWithBackoff(pdfPath, 2)
maxRetries == 2
\* displayProblemImage calls awaiting preloadImage at the same time
MaxPreloads == 2
\* solution loads in flight at the same time
MaxSolutionLoads == 1

\* null in a path-valued field
NoPath == <<>>

\* ProblemData.getImagePath, and the same path built by loadProblemForSelection
getImagePath(year, month, questionNumber) == <<"mun", year, month, questionNumber>>

\* ProblemData.getPDFPath
getPDFPath(problemData) ==
    <<"sol", problemData.year, problemData.month, problemData.questionNumber>>

AllImagePaths == {getImagePath(y, m, q) : y \in Years, m \in Months, q \in Questions}

\* the listeners in the order App.initializeModules and App.setupEventHandlers
\* register them
AppListeners == <<<<"header", 1>>, <<"content", 2>>, <<"selection", 3>>, <<"app", 4>>>>

\* the application after App.init; disabled tells whether the page starts
\* with the solution button disabled
AppInit(disabled) ==
    [monthOptions |-> FALSE, questionOptions |-> FALSE,
     solutionBtn |-> ~disabled, imageSrc |-> NoPath, imageEvent |-> FALSE,
     currentImagePath |-> NoPath,
     imageCache |-> {}, preloads |-> [p \in AllImagePaths |-> 0],
     isLoading |-> FALSE,
     solutionLoads |-> <<>>, microtasks |-> <<>>]

Microtask(task, path) == [task |-> task, path |-> path]

toggleSolutionButton(s, enabled) == [s EXCEPT !.app.solutionBtn = enabled]

hideProblemImage(s) == [s EXCEPT !.app.imageSrc = NoPath, !.app.imageEvent = FALSE]

\* ContentController.clearContent
clearContent(s) == toggleSolutionButton(hideProblemImage(s), FALSE)

\* App.handleError
handleError(s) == Apply("setErrorMessage", "error", s)

\* catch (error) { this.handleError(error) } around a handler that ended in r
CatchHandleError(r) == IF r.exc THEN handleError([r EXCEPT !.exc = FALSE]) ELSE r

\* ContentController.displayProblemImage up to its await: a cached image
\* resumes it in a microtask, any other path awaits preloadImage
displayProblemImage(s, imagePath) ==
    LET s1 == Apply("setLoading", TRUE, [s EXCEPT !.app.currentImagePath = imagePath])
        s2 == toggleSolutionButton(hideProblemImage(s1), FALSE)
    IN IF imagePath \in s2.app.imageCache
       THEN [s2 EXCEPT !.app.microtasks = Append(@, Microtask("display", imagePath))]
       ELSE [s2 EXCEPT !.app.preloads[imagePath] = @ + 1]

\* displayProblemImage after loadImageFromCache resolved
displayProblemImage_resolved(s, imagePath) ==
    [s EXCEPT !.app.imageSrc = imagePath, !.app.imageEvent = TRUE]

\* displayProblemImage after loadImageFromCache rejected: the catch block
displayProblemImage_rejected(s) ==
    Apply("setErrorMessage", "error", Apply("setLoading", FALSE, s))

\* the 'load' listener of problemImage
OnImageLoad(s) == toggleSolutionButton(Apply("setLoading", FALSE, s), TRUE)

\* the 'error' listener of problemImage
OnImageError(s) == Apply("setLoading", FALSE, s)

loadProblemForSelection(s, year, month, question) ==
    displayProblemImage(s, getImagePath(year, month, question))

\* ContentController.setCurrentProblem
ContentController_setCurrentProblem(s, problemData) ==
    LET s1 == Apply("setCurrentProblem", problemData, s)
    IN IF problemData # NoProblem
       THEN displayProblemImage(s1, getImagePath(problemData.year, problemData.month,
                                                 problemData.questionNumber))
       ELSE s1

\* DataManager.createProblemData: a new object, distinct from the one the
\* UIState holds
createProblemData(s, year, month, question) ==
    ProblemData(IF s.ui.currentProblem.id = 1 THEN 2 ELSE 1, year, month, question)

\* App.loadProblemData up to its await
loadProblemData(s, year, month, question) ==
    LET problemData == createProblemData(s, year, month, question)
    IN ContentController_setCurrentProblem(Apply("setCurrentProblem", problemData, s),
                                           problemData)

\* App.clearProblemContent
clearProblemContent(s) ==
    LET s1 == Apply("setCurrentProblem", NoProblem, s)
        s2 == IF s1.ui.isSolutionVisible THEN Apply("setSolutionVisible", FALSE, s1) ELSE s1
    IN clearContent(s2)

\* PDFViewer.loadPDF called by owner, up to its first await: it returns at
\* once while another load is in progress, else it starts to load
loadPDF(s, owner, attempt, pdfPath) ==
    IF s.app.isLoading
    THEN [s EXCEPT !.app.microtasks = Append(@, Microtask(owner, pdfPath))]
    ELSE [s EXCEPT !.app.isLoading = TRUE,
                   !.app.solutionLoads = Append(@, [owner |-> owner, phase |-> "loading",
                                                    attempt |-> attempt, path |-> pdfPath])]

\* ContentController.loadAndShowSolution up to its await
loadAndShowSolution(s, pdfPath) ==
    loadPDF(Apply("setPdfLoading", TRUE, s), "content", 1, pdfPath)

\* loadAndShowSolution after retryPdfLoadWithBackoff resolved, with finally
loadAndShowSolution_resolved(s) ==
    Apply("setPdfLoading", FALSE, Apply("setSolutionVisible", TRUE, s))

\* loadAndShowSolution after retryPdfLoadWithBackoff rejected: catch, finally
loadAndShowSolution_rejected(s) ==
    Apply("setPdfLoading", FALSE,
          Apply("setSolutionVisible", FALSE, Apply("setPdfError", "error", s)))

\* App.loadSolutionPDF up to its await
loadSolutionPDF(s, problemData) ==
    loadPDF(Apply("setPdfLoading", TRUE, s), "app", 1, getPDFPath(problemData))

\* loadSolutionPDF after loadPDF resolved, with finally
loadSolutionPDF_resolved(s) ==
    Apply("setPdfLoading", FALSE, Apply("setSolutionVisible", TRUE, s))

\* loadSolutionPDF after loadPDF rejected: catch, finally; nothing awaits the
\* rejected promise, so the unhandledrejection listener calls handleError
loadSolutionPDF_rejected(s) ==
    handleError(Apply("setPdfLoading", FALSE,
                      Apply("setSolutionVisible", FALSE, Apply("setPdfError", "error", s))))

\* HeaderController.handleStateChange: it updates the reset button only
HeaderController_handleStateChange(s, property, oldValue, newValue) ==
    s

ContentController_handleStateChange(s, property, oldValue, newValue) ==
    CASE property = "selectedQuestion" ->
            IF newValue # NULL /\ s.ui.selectedYear # NULL /\ s.ui.selectedMonth # NULL
            THEN loadProblemForSelection(s, s.ui.selectedYear, s.ui.selectedMonth, newValue)
            ELSE toggleSolutionButton(hideProblemImage(s), FALSE)
      [] OTHER -> s

handleYearChange(s, year) ==
    IF year # NULL THEN s ELSE clearProblemContent(s)

handleMonthChange(s, month) ==
    IF month # NULL /\ s.ui.selectedYear # NULL THEN s ELSE clearProblemContent(s)

handleQuestionChange(s, question) ==
    IF question # NULL /\ s.ui.selectedYear # NULL /\ s.ui.selectedMonth # NULL
    THEN loadProblemData(s, s.ui.selectedYear, s.ui.selectedMonth, question)
    ELSE clearProblemContent(s)

\* App.handleSelectionChange, with its try/catch
handleSelectionChange(s, property, oldValue, newValue) ==
    CatchHandleError(CASE property = "selectedYear" -> handleYearChange(s, newValue)
                       [] property = "selectedMonth" -> handleMonthChange(s, newValue)
                       [] property = "selectedQuestion" -> handleQuestionChange(s, newValue))

\* the listener HeaderController.onSelectionChange registers for App
onSelectionChange(s, property, oldValue, newValue) ==
    IF property \in {"selectedYear", "selectedMonth", "selectedQuestion"}
    THEN handleSelectionChange(s, property, oldValue, newValue)
    ELSE s

handleSolutionVisibilityChange(s, isVisible) ==
    IF isVisible /\ s.ui.currentProblem # NoProblem
    THEN loadSolutionPDF(s, s.ui.currentProblem)
    ELSE s

handleLoadingStateChange(s, isLoading) ==
    IF isLoading THEN Apply("setErrorMessage", NULL, s) ELSE s

handlePdfLoadingStateChange(s, isPdfLoading) ==
    IF isPdfLoading THEN Apply("setPdfError", NULL, s) ELSE s

\* App.handleUIStateChange, with its try/catch
handleUIStateChange(s, property, oldValue, newValue) ==
    CatchHandleError(CASE property = "isSolutionVisible" ->
                               handleSolutionVisibilityChange(s, newValue)
                       [] property = "isLoading" -> handleLoadingStateChange(s, newValue)
                       [] property = "isPdfLoading" -> handlePdfLoadingStateChange(s, newValue)
                       [] OTHER -> s)

\* the body of a registered listener
ListenerBody(l, s, property, oldValue, newValue) ==
    CASE l[1] = "header" -> HeaderController_handleStateChange(s, property, oldValue, newValue)
      [] l[1] = "content" -> ContentController_handleStateChange(s, property, oldValue, newValue)
      [] l[1] = "selection" -> onSelectionChange(s, property, oldValue, newValue)
      [] l[1] = "app" -> handleUIStateChange(s, property, oldValue, newValue)
      [] OTHER -> s

\* one call listener(property, oldValue, newValue, this)
CallListener(l, s, property, oldValue, newValue) ==
    LET s1 == [s EXCEPT !.log = Append(@, [listener |-> l, property |-> property,
                                           oldValue |-> oldValue, newValue |-> newValue,
                                           state |-> s.ui])]
    IN IF l \in s.faulty
       THEN [s1 EXCEPT !.exc = TRUE]
       ELSE ListenerBody(l, s1, property, oldValue, newValue)

\* the catch block of notifyStateChange: the exception ends here
Caught(r) == [r EXCEPT !.exc = FALSE]

RECURSIVE NotifyFrom(_, _, _, _, _)
\* forEach over stateChangeListeners from index i, each call in try/catch
NotifyFrom(s, i, property, oldValue, newValue) ==
    IF i > Len(s.listeners) THEN s
    ELSE NotifyFrom(Caught(CallListener(s.listeners[i], s, property, oldValue, newValue)),
                    i + 1, property, oldValue, newValue)

RECURSIVE NotifyFromNoCatch(_, _, _, _, _)
\* mutation: the listener call is not wrapped in try/catch
NotifyFromNoCatch(s, i, property, oldValue, newValue) ==
    IF i > Len(s.listeners) \/ s.exc THEN s
    ELSE NotifyFromNoCatch(CallListener(s.listeners[i], s, property, oldValue, newValue),
                           i + 1, property, oldValue, newValue)

notifyStateChange_NoCatch(s, property, oldValue, newValue) ==
    IF s.exc THEN s ELSE NotifyFromNoCatch(s, 1, property, oldValue, newValue)

notifyStateChange(s, property, oldValue, newValue) ==
    IF s.exc THEN s ELSE NotifyFrom(s, 1, property, oldValue, newValue)

setPdfError(s, error) ==
    IF s.exc THEN s
    ELSE LET oldValue == s.ui.pdfError
             s1 == [s EXCEPT !.ui.pdfError = error]
         IN IF oldValue # error
            THEN notifyStateChange(s1, "pdfError", oldValue, error)
            ELSE s1

setErrorMessage(s, message) ==
    IF s.exc THEN s
    ELSE LET oldValue == s.ui.errorMessage
             s1 == [s EXCEPT !.ui.errorMessage = message]
         IN IF oldValue # message
            THEN notifyStateChange(s1, "errorMessage", oldValue, message)
            ELSE s1

setPdfLoading(s, loading) ==
    IF s.exc THEN s
    ELSE LET oldValue == s.ui.isPdfLoading
             s1 == [s EXCEPT !.ui.isPdfLoading = loading]
         IN IF oldValue # loading
            THEN notifyStateChange(IF loading THEN Apply("setPdfError", NULL, s1) ELSE s1,
                                   "isPdfLoading", oldValue, loading)
            ELSE s1

setSolutionVisible(s, visible) ==
    IF s.exc THEN s
    ELSE LET oldValue == s.ui.isSolutionVisible
             s1 == [s EXCEPT !.ui.isSolutionVisible = visible]
         IN IF oldValue # visible
            THEN notifyStateChange(IF ~visible THEN Apply("setPdfError", NULL, s1) ELSE s1,
                                   "isSolutionVisible", oldValue, visible)
            ELSE s1

\* the comparison is by reference: two ProblemData objects are the same
\* value iff they are the same object
setCurrentProblem(s, problem) ==
    IF s.exc THEN s
    ELSE LET oldValue == s.ui.currentProblem
             s1 == [s EXCEPT !.ui.currentProblem = problem]
         IN IF oldValue.id # problem.id
            THEN notifyStateChange(s1, "currentProblem", oldValue, problem)
            ELSE s1

\* mutation: starting to load does not clear the stale error
setLoading_NoClear(s, loading) ==
    IF s.exc THEN s
    ELSE LET oldValue == s.ui.isLoading
             s1 == [s EXCEPT !.ui.isLoading = loading]
         IN IF oldValue # loading
            THEN notifyStateChange(s1, "isLoading", oldValue, loading)
            ELSE s1

setLoading(s, loading) ==
    IF s.exc THEN s
    ELSE LET oldValue == s.ui.isLoading
             s1 == [s EXCEPT !.ui.isLoading = loading]
         IN IF oldValue # loading
            THEN notifyStateChange(IF loading THEN Apply("setErrorMessage", NULL, s1) ELSE s1,
                                   "isLoading", oldValue, loading)
            ELSE s1

setSelectedQuestion(s, question) ==
    IF s.exc THEN s
    ELSE LET oldValue == s.ui.selectedQuestion
             s1 == [s EXCEPT !.ui.selectedQuestion = question]
         IN IF oldValue # question
            THEN notifyStateChange(Apply("setSolutionVisible", FALSE,
                                         Apply("setCurrentProblem", NoProblem, s1)),
                                   "selectedQuestion", oldValue, question)
            ELSE s1

\* mutation: a month change does not reset the question
setSelectedMonth_NoQuestionReset(s, month) ==
    IF s.exc THEN s
    ELSE LET oldValue == s.ui.selectedMonth
             s1 == [s EXCEPT !.ui.selectedMonth = month]
         IN IF oldValue # month
            THEN notifyStateChange(s1, "selectedMonth", oldValue, month)
            ELSE s1

setSelectedMonth(s, month) ==
    IF s.exc THEN s
    ELSE LET oldValue == s.ui.selectedMonth
             s1 == [s EXCEPT !.ui.selectedMonth = month]
         IN IF oldValue # month
            THEN notifyStateChange(Apply("setSelectedQuestion", NULL, s1),
                                   "selectedMonth", oldValue, month)
            ELSE s1

\* mutation: a year change notifies without a change check
setSelectedYear_AlwaysNotify(s, year) ==
    IF s.exc THEN s
    ELSE LET oldValue == s.ui.selectedYear
             s1 == [s EXCEPT !.ui.selectedYear = year]
         IN notifyStateChange(Apply("setSelectedQuestion", NULL, Apply("setSelectedMonth", NULL, s1)),
                              "selectedYear", oldValue, year)

setSelectedYear(s, year) ==
    IF s.exc THEN s
    ELSE LET oldValue == s.ui.selectedYear
             s1 == [s EXCEPT !.ui.selectedYear = year]
         IN IF oldValue # year
            THEN notifyStateChange(Apply("setSelectedQuestion", NULL, Apply("setSelectedMonth", NULL, s1)),
                                   "selectedYear", oldValue, year)
            ELSE s1

\* the calls reset makes before the last one
resetFields(s) ==
    Apply("setPdfLoading", FALSE,
    Apply("setErrorMessage", NULL,
    Apply("setLoading", FALSE,
    Apply("setSolutionVisible", FALSE,
    Apply("setCurrentProblem", NoProblem,
    Apply("setSelectedQuestion", NULL,
    Apply("setSelectedMonth", NULL,
    Apply("setSelectedYear", NULL, s))))))))

\* mutation: reset forgets the PDF error
reset_KeepPdfError(s) ==
    resetFields(s)

reset(s) ==
    Apply("setPdfError", NULL, resetFields(s))

\* ------------------------------------------------------------------------
\* Spec: the UIState object under arbitrary calls of its public methods
\* ------------------------------------------------------------------------
\* run operation op with argument arg on machine state s
Apply(op, arg, s) ==
    CASE op = "setSelectedYear" -> setSelectedYear(s, arg)
      [] op = "setSelectedMonth" -> setSelectedMonth(s, arg)
      [] op = "setSelectedQuestion" -> setSelectedQuestion(s, arg)
      [] op = "setLoading" -> setLoading(s, arg)
      [] op = "setCurrentProblem" -> setCurrentProblem(s, arg)
      [] op = "setSolutionVisible" -> setSolutionVisible(s, arg)
      [] op = "setErrorMessage" -> setErrorMessage(s, arg)
      [] op = "setPdfLoading" -> setPdfLoading(s, arg)
      [] op = "setPdfError" -> setPdfError(s, arg)
      [] op = "reset" -> reset(s)

\* a call that selects top-down: a month only under a year, a question only
\* under a year and a month
TopDown(op, arg) ==
    CASE op = "setSelectedMonth" -> arg = NULL \/ ui.selectedYear # NULL
      [] op = "setSelectedQuestion" ->
            arg = NULL \/ (ui.selectedYear # NULL /\ ui.selectedMonth # NULL)
      [] OTHER -> TRUE

Call(op, arg) ==
    LET r == Apply(op, arg, Machine(ui, stateChangeListeners, faulty, app))
    IN /\ ui' = r.ui
       /\ log' = r.log
       /\ threw' = r.exc
       /\ lastCall' = [op |-> op, arg |-> arg, pre |-> ui]
       /\ UNCHANGED <<stateChangeListeners, faulty>>

DoSetSelectedYear ==
    \E year \in Years \cup {NULL} :
        Call("setSelectedYear", year)

DoSetSelectedMonth ==
    \E month \in Months \cup {NULL} :
        Call("setSelectedMonth", month)

DoSetSelectedQuestion ==
    \E question \in Questions \cup {NULL} :
        Call("setSelectedQuestion", question)

DoSetLoading ==
    \E loading \in BOOLEAN :
        Call("setLoading", loading)

DoSetCurrentProblem ==
    \E problem \in ProblemRefs \cup {NoProblem} :
        Call("setCurrentProblem", problem)

DoSetSolutionVisible ==
    \E visible \in BOOLEAN :
        Call("setSolutionVisible", visible)

DoSetErrorMessage ==
    \E message \in Messages \cup {NULL} :
        Call("setErrorMessage", message)

DoSetPdfLoading ==
    \E loading \in BOOLEAN :
        Call("setPdfLoading", loading)

DoSetPdfError ==
    \E error \in Messages \cup {NULL} :
        Call("setPdfError", error)

\* a listener starts to throw, or the throwing one is repaired
ListenerFault ==
    \E f \in FaultChoices :
        /\ f # faulty
        /\ faulty' = f
        /\ log' = <<>>
        /\ threw' = FALSE
        /\ lastCall' = [op |-> "none", arg |-> NULL, pre |-> ui]
        /\ UNCHANGED <<ui, stateChangeListeners>>

DoReset ==
    Call("reset", NULL)

InitUI ==
    /\ ui = UIStateInit
    /\ stateChangeListeners = ObserverList
    /\ log = <<>>
    /\ lastCall = [op |-> "none", arg |-> NULL, pre |-> UIStateInit]
    /\ threw = FALSE
    /\ faulty = {}

\* calls of callers that select top-down
TopDownSetSelectedMonth ==
    \E month \in Months \cup {NULL} :
        TopDown("setSelectedMonth", month) /\ Call("setSelectedMonth", month)

TopDownSetSelectedQuestion ==
    \E question \in Questions \cup {NULL} :
        TopDown("setSelectedQuestion", question) /\ Call("setSelectedQuestion", question)

\* ------------------------------------------------------------------------
\* The events of the page and the completions of the loads (SpecApp)
\* ------------------------------------------------------------------------
RunMicrotask(t, s) ==
    CASE t.task = "display" -> displayProblemImage_resolved(s, t.path)
      [] t.task = "content" -> loadAndShowSolution_resolved(s)
      [] t.task = "app" -> loadSolutionPDF_resolved(s)

RECURSIVE Drain(_)
\* the microtask checkpoint after a task: the settled promises' continuations
\* run in the order they were queued
Drain(s) ==
    IF s.app.microtasks = <<>> THEN s
    ELSE Drain(RunMicrotask(Head(s.app.microtasks), [s EXCEPT !.app.microtasks = Tail(@)]))

Remove(seq, i) == SubSeq(seq, 1, i - 1) \o SubSeq(seq, i + 1, Len(seq))

\* number of displayProblemImage calls awaiting preloadImage
PendingPreloads(a) ==
    Cardinality({x \in AllImagePaths \X (1..(MaxPreloads + 2)) : x[2] <= a.preloads[x[1]]})

\* the machine state a task starts from
Task == Machine(ui, stateChangeListeners, faulty, app)

\* a task ends in machine state r; cascade is the machine state at the return
\* of the call the task is named after
AppEvent(op, arg, cascade, r) ==
    /\ Len(r.app.solutionLoads) <= MaxSolutionLoads
    /\ PendingPreloads(r.app) <= MaxPreloads
    /\ ui' = r.ui
    /\ app' = r.app
    /\ log' = cascade.log
    /\ threw' = r.exc
    /\ lastCall' = [op |-> op, arg |-> arg, pre |-> ui]
    /\ UNCHANGED <<stateChangeListeners, faulty>>

\* the year dropdown's listener after setSelectedYear: the month dropdown is
\* filled and enabled, or both dependent dropdowns are emptied and disabled
yearSelectChanged(s, year) ==
    IF year # NULL
    THEN [s EXCEPT !.app.monthOptions = TRUE]
    ELSE [s EXCEPT !.app.monthOptions = FALSE, !.app.questionOptions = FALSE]

\* the 'change' listener of the year dropdown (HeaderController)
YearChange ==
    \E year \in Years \cup {NULL} :
        /\ year # ui.selectedYear
        /\ LET r == Apply("setSelectedYear", year, Task)
           IN AppEvent("setSelectedYear", year, r, Drain(yearSelectChanged(r, year)))

\* the month dropdown's listener after setSelectedMonth
monthSelectChanged(s, month) ==
    [s EXCEPT !.app.questionOptions = (month # NULL /\ s.ui.selectedYear # NULL)]

\* the 'change' listener of the month dropdown
MonthChange ==
    \E month \in Months \cup {NULL} :
        /\ month # ui.selectedMonth
        /\ month # NULL => app.monthOptions
        /\ LET r == Apply("setSelectedMonth", month, Task)
           IN AppEvent("setSelectedMonth", month, r, Drain(monthSelectChanged(r, month)))

\* the 'change' listener of the question dropdown
QuestionChange ==
    \E question \in Questions \cup {NULL} :
        /\ question # ui.selectedQuestion
        /\ question # NULL => app.questionOptions
        /\ LET r == Apply("setSelectedQuestion", question, Task)
           IN AppEvent("setSelectedQuestion", question, r, Drain(r))

\* HeaderController.resetSelections, from the reset button or Ctrl+R
ResetSelections ==
    LET r == Apply("reset", NULL, Task)
    IN AppEvent("reset", NULL, r, Drain(yearSelectChanged(r, NULL)))

\* the 'click' listener ContentController puts on the solution button
ContentController_click(s) ==
    IF s.ui.isSolutionVisible
    THEN Apply("setSolutionVisible", FALSE, s)
    ELSE IF s.ui.currentProblem # NoProblem
         THEN loadAndShowSolution(s, getPDFPath(s.ui.currentProblem))
         ELSE s

\* App.handleSolutionButtonClick, with its try/catch
handleSolutionButtonClick(s) ==
    CatchHandleError(IF s.ui.currentProblem = NoProblem THEN s
                     ELSE Apply("setSolutionVisible", ~s.ui.isSolutionVisible, s))

\* a click on the enabled solution button: the listener of ContentController,
\* then the listener of App, each followed by a microtask checkpoint
SolutionButtonClick ==
    /\ app.solutionBtn
    /\ LET r == Drain(handleSolutionButtonClick(Drain(ContentController_click(Task))))
       IN AppEvent("click", NULL, r, r)

\* the key S while a problem is current
KeySolution ==
    /\ ui.currentProblem # NoProblem
    /\ LET r == Drain(handleSolutionButtonClick(Task))
       IN AppEvent("keyS", NULL, r, r)

\* the key Escape while the solution is visible
KeyEscape ==
    /\ ui.isSolutionVisible
    /\ LET r == Drain(Apply("setSolutionVisible", FALSE, Task))
       IN AppEvent("keyEscape", NULL, r, r)

\* preloadImage resolves: loadImageFromCache caches the image and
\* displayProblemImage resumes
ImagePreloadResolved ==
    \E path \in AllImagePaths :
        /\ app.preloads[path] > 0
        /\ LET s1 == [Task EXCEPT !.app.preloads[path] = @ - 1,
                                  !.app.imageCache = @ \cup {path}]
               r == Drain(displayProblemImage_resolved(s1, path))
           IN AppEvent("imagePreload", "resolved", r, r)

\* preloadImage rejects
ImagePreloadRejected ==
    \E path \in AllImagePaths :
        /\ app.preloads[path] > 0
        /\ LET s1 == [Task EXCEPT !.app.preloads[path] = @ - 1]
               r == Drain(displayProblemImage_rejected(s1))
           IN AppEvent("imagePreload", "rejected", r, r)

\* the browser fires 'load' on problemImage
ImageLoadEvent ==
    /\ app.imageEvent
    /\ LET r == Drain(OnImageLoad([Task EXCEPT !.app.imageEvent = FALSE]))
       IN AppEvent("image", "load", r, r)

\* the browser fires 'error' on problemImage
ImageErrorEvent ==
    /\ app.imageEvent
    /\ LET r == Drain(OnImageError([Task EXCEPT !.app.imageEvent = FALSE]))
       IN AppEvent("image", "error", r, r)

\* the function that awaited loadPDF resumes after it resolved
loadResolved(s, load) ==
    IF load.owner = "content" THEN loadAndShowSolution_resolved(s)
    ELSE loadSolutionPDF_resolved(s)

\* PDFViewer.loadPDF resolves: its finally clears isLoading
PdfLoadResolved ==
    \E i \in DOMAIN app.solutionLoads :
        /\ app.solutionLoads[i].phase = "loading"
        /\ LET r == Drain(loadResolved([Task EXCEPT !.app.solutionLoads = Remove(@, i),
                                                    !.app.isLoading = FALSE],
                                       app.solutionLoads[i]))
           IN AppEvent("pdfLoad", "resolved", r, r)

\* the attempt after which retryPdfLoadWithBackoff gives up; App.loadSolutionPDF
\* does not retry
LastAttempt(load) == load.owner = "app" \/ load.attempt = maxRetries + 1

\* the function that awaited loadPDF resumes after it rejected:
\* retryPdfLoadWithBackoff waits before the next attempt, or throws after the
\* last one
loadRejected(s, i, load) ==
    IF load.owner = "app"
    THEN loadSolutionPDF_rejected([s EXCEPT !.app.solutionLoads = Remove(@, i)])
    ELSE IF LastAttempt(load)
         THEN loadAndShowSolution_rejected([s EXCEPT !.app.solutionLoads = Remove(@, i)])
         ELSE [s EXCEPT !.app.solutionLoads[i].phase = "backoff"]

\* PDFViewer.loadPDF rejects: its finally clears isLoading
PdfLoadRejected ==
    \E i \in DOMAIN app.solutionLoads :
        /\ app.solutionLoads[i].phase = "loading"
        /\ LET r == Drain(loadRejected([Task EXCEPT !.app.isLoading = FALSE], i,
                                       app.solutionLoads[i]))
           IN AppEvent("pdfLoad",
                       IF LastAttempt(app.solutionLoads[i]) THEN "rejected" ELSE "retry", r, r)

\* the backoff timer of retryPdfLoadWithBackoff fires: the next attempt
BackoffElapsed ==
    \E i \in DOMAIN app.solutionLoads :
        /\ app.solutionLoads[i].phase = "backoff"
        /\ LET r == Drain(loadPDF([Task EXCEPT !.app.solutionLoads = Remove(@, i)], "content",
                                  app.solutionLoads[i].attempt + 1, app.solutionLoads[i].path))
           IN AppEvent("backoff", NULL, r, r)

\* ------------------------------------------------------------------------
\* The caches: ContentController.imageCache, PDFViewer.pdfCache and
\* PDFViewer.renderedPageCache.  A JavaScript Map is a sequence of entries in
\* insertion order; an entry is a record with its key in field key.
\* ------------------------------------------------------------------------
\* capacities, scaled down from the deployed 20 / 5 / 20
maxCacheSize == 2
maxPdfCacheSize == 2
maxPageCacheSize == 2
\* the clock stops at MaxTime
MaxTime == 2
\* no image is read more often than this
MaxAccessCount == 3
\* no document is read more often than this
MaxPdfAccessCount == 2
\* loads in flight at the same time
MaxPending == 2

ImagePaths == 1..(maxCacheSize + 1)
PdfPaths == 1..(maxPdfCacheSize + 1)
PageKeys == 1..(maxPageCacheSize + 1)

\* the ages the code compares with, scaled down to ticks of the clock:
\* getCachedRenderedPage serves a page younger than maxAge (5 minutes)
PageMaxAge == 1
\* performMemoryCleanup: maxAge (10 minutes) and minAccessCount
imageMaxAge == 1
imageMinAccessCount == 3
\* performPdfMemoryCleanup: maxAge (15 minutes), minAccessCount and
\* pageMaxAge (5 minutes)
pdfMaxAge == 1
pdfMinAccessCount == 2
pageMaxAge == 1

\* the statuses the existence probe of loadPDF answers with
ProbeStatuses == {200, 404, 500}

VARIABLES
    now,                \* Date.now()
    cacheUnderTest,     \* the cache the environment exercises
    imageCache,         \* ContentController.imageCache
    imagePending,       \* image loads awaiting preloadImage: <<path, caller>>
    pdfCache,           \* PDFViewer.pdfCache
    pdfDocument,        \* PDFViewer.pdfDocument: the path it was loaded from (0 is null)
    pdfLoadingPath,     \* the path PDFViewer.loadPDF is fetching (0: isLoading false)
    pdfLoadPhase,       \* what loadPDF awaits: "idle", "probe" or "getDocument"
    hideTimers,         \* pending 300 ms timers of PDFViewer.hidePDF
    destroyCount,       \* destroy() calls on the document last loaded from a path
    renderedPageCache,  \* PDFViewer.renderedPageCache
    pagePending,        \* per key, the renders awaiting page.render
    canvas,             \* the key of the page drawn on the canvas (0: none)
    cacheEvent          \* the last cache operation: its name, key and removed keys

varsCache == <<now, cacheUnderTest, imageCache, imagePending, pdfCache, pdfDocument,
               pdfLoadingPath, pdfLoadPhase, hideTimers, destroyCount,
               renderedPageCache, pagePending, canvas, cacheEvent>>

MapKeys(m) == {m[i].key : i \in DOMAIN m}
MapHas(m, k) == k \in MapKeys(m)
MapIndex(m, k) == CHOOSE i \in DOMAIN m : m[i].key = k
MapGet(m, k) == m[MapIndex(m, k)]
\* Map.set: an existing key keeps its position
MapSet(m, e) == IF MapHas(m, e.key) THEN [m EXCEPT ![MapIndex(m, e.key)] = e] ELSE Append(m, e)
MapDelete(m, k) == SelectSeq(m, LAMBDA e : e.key # k)
\* Map.keys().next().value
FirstKey(m) == m[1].key

\* the record of a cache operation that removed the keys in removed
Event(op, key, removed) == [op |-> op, key |-> key, removed |-> removed]
\* the keys an operation taking a cache from pre to post removed
Removed(pre, post) == MapKeys(pre) \ MapKeys(post)

\* loadImageFromCache after preloadImage resolved: evict the first key when
\* full, then set
loadImageFromCache(cache, imagePath, t) ==
    LET c1 == IF Len(cache) >= maxCacheSize THEN MapDelete(cache, FirstKey(cache)) ELSE cache
    IN MapSet(c1, [key |-> imagePath, timestamp |-> t, accessCount |-> 1])

\* displayProblemImage after loadImageFromCache returned: update the access
\* count and the last access time of the entry, if there is one
updateCacheAccess(cache, imagePath, t) ==
    IF MapHas(cache, imagePath)
    THEN LET e == MapGet(cache, imagePath)
         IN MapSet(cache, [e EXCEPT !.accessCount = @ + 1, !.timestamp = t])
    ELSE cache

\* mutation: the sweep removes an entry whose age equals maxAge
performMemoryCleanup_AtMaxAge(cache, t) ==
    SelectSeq(cache, LAMBDA data : ~(t - data.timestamp >= imageMaxAge
                                     /\ data.accessCount < imageMinAccessCount))

\* ContentController.performMemoryCleanup: the cache it leaves
performMemoryCleanup(cache, t) ==
    SelectSeq(cache, LAMBDA data : ~(t - data.timestamp > imageMaxAge
                                     /\ data.accessCount < imageMinAccessCount))

RECURSIVE OldestPath(_, _, _, _)
\* the loop of cachePDF: the first path with the least lastAccess below
\* oldestTime (0 is null)
OldestPath(cache, i, oldestPath, oldestTime) ==
    IF i > Len(cache) THEN oldestPath
    ELSE IF cache[i].lastAccess < oldestTime
         THEN OldestPath(cache, i + 1, cache[i].key, cache[i].lastAccess)
         ELSE OldestPath(cache, i + 1, oldestPath, oldestTime)

\* cachePDF: the path it evicts (0: none)
EvictedPdf(cache, t) ==
    IF Len(cache) >= maxPdfCacheSize THEN OldestPath(cache, 1, 0, t) ELSE 0

cachePDF(cache, pdfPath, document, t) ==
    LET oldestPath == EvictedPdf(cache, t)
        c1 == IF oldestPath # 0 THEN MapDelete(cache, oldestPath) ELSE cache
    IN MapSet(c1, [key |-> pdfPath, document |-> document,
                   lastAccess |-> t, accessCount |-> 1])

\* document.destroy()
Destroy(counts, document) == [counts EXCEPT ![document] = @ + 1]

\* document.destroy() on the document of every entry of cache with a key in paths
DestroyAll(counts, cache, paths) ==
    [d \in DOMAIN counts |->
        counts[d] + Cardinality({i \in DOMAIN cache : cache[i].key \in paths
                                                       /\ cache[i].document = d})]

\* PDFViewer.performPdfMemoryCleanup: the document cache it leaves
performPdfMemoryCleanup(cache, t) ==
    SelectSeq(cache, LAMBDA data : ~(t - data.lastAccess > pdfMaxAge
                                     /\ data.accessCount < pdfMinAccessCount))

\* PDFViewer.performPdfMemoryCleanup: the rendered-page cache it leaves
performPdfMemoryCleanup_pages(cache, t) ==
    SelectSeq(cache, LAMBDA data : ~(t - data.timestamp > pageMaxAge))

cacheRenderedPage(cache, cacheKey, t) ==
    LET c1 == IF Len(cache) >= maxPageCacheSize THEN MapDelete(cache, FirstKey(cache)) ELSE cache
    IN MapSet(c1, [key |-> cacheKey, timestamp |-> t])

\* getCachedRenderedPage: TRUE iff it returns the cached bitmap
CachedPageValid(cache, cacheKey, t) ==
    MapHas(cache, cacheKey) /\ t - MapGet(cache, cacheKey).timestamp < PageMaxAge

\* getCachedRenderedPage: the cache it leaves (an expired entry is deleted)
getCachedRenderedPage(cache, cacheKey, t) ==
    IF MapHas(cache, cacheKey) /\ ~CachedPageValid(cache, cacheKey, t)
    THEN MapDelete(cache, cacheKey)
    ELSE cache

UNCHANGED_Image == UNCHANGED <<imageCache, imagePending>>
UNCHANGED_Pdf == UNCHANGED <<pdfCache, pdfDocument, pdfLoadingPath, pdfLoadPhase,
                             hideTimers, destroyCount>>
UNCHANGED_Page == UNCHANGED <<renderedPageCache, pagePending, canvas>>

\* time passes
Tick ==
    /\ cacheUnderTest # "none"
    /\ now < MaxTime
    /\ now' = now + 1
    /\ cacheEvent' = Event("tick", 0, {})
    /\ UNCHANGED cacheUnderTest
    /\ UNCHANGED_Image /\ UNCHANGED_Pdf /\ UNCHANGED_Page

\* displayProblemImage(path) finds the image in the cache
ImageCacheHit ==
    \E path \in ImagePaths :
        /\ cacheUnderTest = "image"
        /\ MapHas(imageCache, path)
        /\ MapGet(imageCache, path).accessCount < MaxAccessCount
        /\ imageCache' = updateCacheAccess(imageCache, path, now)
        /\ cacheEvent' = Event("imageHit", path, {})
        /\ UNCHANGED <<now, cacheUnderTest, imagePending>>
        /\ UNCHANGED_Pdf /\ UNCHANGED_Page

\* displayProblemImage(path) or prefetchImages([path]) misses the cache and
\* awaits preloadImage
ImageLoadStart ==
    \E path \in ImagePaths, caller \in {"display", "prefetch"} :
        /\ cacheUnderTest = "image"
        /\ ~MapHas(imageCache, path)
        /\ <<path, caller>> \notin imagePending
        /\ Cardinality(imagePending) < MaxPending
        /\ imagePending' = imagePending \cup {<<path, caller>>}
        /\ cacheEvent' = Event("imageLoadStart", path, {})
        /\ UNCHANGED <<now, cacheUnderTest, imageCache>>
        /\ UNCHANGED_Pdf /\ UNCHANGED_Page

\* preloadImage resolves: the image is cached, and displayProblemImage
\* updates the access statistics of the entry
ImageLoadDone ==
    \E load \in imagePending :
        LET inserted == loadImageFromCache(imageCache, load[1], now)
        IN /\ cacheUnderTest = "image"
           /\ imagePending' = imagePending \ {load}
           /\ imageCache' = IF load[2] = "display"
                            THEN updateCacheAccess(inserted, load[1], now)
                            ELSE inserted
           /\ cacheEvent' = Event("imageLoadDone", load[1], Removed(imageCache, inserted))
           /\ UNCHANGED <<now, cacheUnderTest>>
           /\ UNCHANGED_Pdf /\ UNCHANGED_Page

\* preloadImage rejects
ImageLoadFail ==
    \E load \in imagePending :
        /\ cacheUnderTest = "image"
        /\ imagePending' = imagePending \ {load}
        /\ cacheEvent' = Event("imageLoadFail", load[1], {})
        /\ UNCHANGED <<now, cacheUnderTest, imageCache>>
        /\ UNCHANGED_Pdf /\ UNCHANGED_Page

\* the interval timer of ContentController or a visibilitychange event:
\* performMemoryCleanup
ImageMemoryCleanup ==
    /\ cacheUnderTest = "image"
    /\ imageCache # <<>>
    /\ imageCache' = performMemoryCleanup(imageCache, now)
    /\ cacheEvent' = Event("imageSweep", 0,
                           Removed(imageCache, performMemoryCleanup(imageCache, now)))
    /\ UNCHANGED <<now, cacheUnderTest, imagePending>>
    /\ UNCHANGED_Pdf /\ UNCHANGED_Page

\* clearImageCache
ClearImageCache ==
    /\ cacheUnderTest = "image"
    /\ imageCache # <<>>
    /\ imageCache' = <<>>
    /\ cacheEvent' = Event("imageClear", 0, MapKeys(imageCache))
    /\ UNCHANGED <<now, cacheUnderTest, imagePending>>
    /\ UNCHANGED_Pdf /\ UNCHANGED_Page

\* loadPDF(path) finds the document in the cache
LoadPDFFromCache ==
    \E path \in PdfPaths :
        /\ cacheUnderTest = "pdf"
        /\ pdfLoadingPath = 0
        /\ MapHas(pdfCache, path)
        /\ MapGet(pdfCache, path).accessCount < MaxPdfAccessCount
        /\ LET cachedPdf == MapGet(pdfCache, path)
           IN /\ pdfDocument' = cachedPdf.document
              /\ pdfCache' = MapSet(pdfCache, [cachedPdf EXCEPT !.accessCount = @ + 1,
                                                               !.lastAccess = now])
        /\ cacheEvent' = Event("pdfHit", path, {})
        /\ UNCHANGED <<now, cacheUnderTest, pdfLoadingPath, pdfLoadPhase, hideTimers,
                       destroyCount>>
        /\ UNCHANGED_Image /\ UNCHANGED_Page

\* loadPDF(path) misses the cache and awaits the existence probe
LoadPDFStart ==
    \E path \in PdfPaths :
        /\ cacheUnderTest = "pdf"
        /\ pdfLoadingPath = 0
        /\ ~MapHas(pdfCache, path)
        /\ pdfLoadingPath' = path
        /\ pdfLoadPhase' = "probe"
        /\ cacheEvent' = Event("pdfLoadStart", path, {})
        /\ UNCHANGED <<now, cacheUnderTest, pdfCache, pdfDocument, hideTimers,
                       destroyCount>>
        /\ UNCHANGED_Image /\ UNCHANGED_Page

\* the existence probe answers: loadPDF goes on to pdfjsLib.getDocument if
\* response.ok, and throws otherwise
ProbeAnswered ==
    \E status \in ProbeStatuses :
        /\ cacheUnderTest = "pdf"
        /\ pdfLoadPhase = "probe"
        /\ IF status = 200
           THEN /\ pdfLoadPhase' = "getDocument"
                /\ cacheEvent' = Event("pdfProbeOk", pdfLoadingPath, {})
                /\ UNCHANGED pdfLoadingPath
           ELSE /\ pdfLoadPhase' = "idle"
                /\ cacheEvent' = Event("pdfProbeFail", pdfLoadingPath, {})
                /\ pdfLoadingPath' = 0
        /\ UNCHANGED <<now, cacheUnderTest, pdfCache, pdfDocument, hideTimers, destroyCount>>
        /\ UNCHANGED_Image /\ UNCHANGED_Page

\* getDocument resolves with a new document for the path, not yet destroyed:
\* it becomes the active document and is cached
LoadPDFDone ==
    /\ cacheUnderTest = "pdf"
    /\ pdfLoadPhase = "getDocument"
    /\ LET oldestPath == EvictedPdf(pdfCache, now)
           fresh == [destroyCount EXCEPT ![pdfLoadingPath] = 0]
       IN destroyCount' = IF oldestPath # 0
                          THEN Destroy(fresh, MapGet(pdfCache, oldestPath).document)
                          ELSE fresh
    /\ pdfDocument' = pdfLoadingPath
    /\ pdfCache' = cachePDF(pdfCache, pdfLoadingPath, pdfLoadingPath, now)
    /\ cacheEvent' = Event("pdfLoadDone", pdfLoadingPath,
                           Removed(pdfCache, cachePDF(pdfCache, pdfLoadingPath,
                                                      pdfLoadingPath, now)))
    /\ pdfLoadingPath' = 0
    /\ pdfLoadPhase' = "idle"
    /\ UNCHANGED <<now, cacheUnderTest, hideTimers>>
    /\ UNCHANGED_Image /\ UNCHANGED_Page

\* mutation: a failed load leaves an entry for its path in the cache
LoadPDFFail_CachesFailure ==
    /\ cacheUnderTest = "pdf"
    /\ pdfLoadingPath # 0
    /\ cacheEvent' = Event(IF pdfLoadPhase = "probe" THEN "pdfProbeFail" ELSE "pdfLoadFail",
                           pdfLoadingPath, {})
    /\ pdfCache' = MapSet(pdfCache, [key |-> pdfLoadingPath, document |-> pdfLoadingPath,
                                     lastAccess |-> now, accessCount |-> 1])
    /\ pdfLoadingPath' = 0
    /\ pdfLoadPhase' = "idle"
    /\ UNCHANGED <<now, cacheUnderTest, pdfDocument, hideTimers, destroyCount>>
    /\ UNCHANGED_Image /\ UNCHANGED_Page

\* the probe's fetch rejects, or getDocument rejects or loses the race
\* against the 15 s timeout
LoadPDFFail ==
    /\ cacheUnderTest = "pdf"
    /\ pdfLoadingPath # 0
    /\ cacheEvent' = Event(IF pdfLoadPhase = "probe" THEN "pdfProbeFail" ELSE "pdfLoadFail",
                           pdfLoadingPath, {})
    /\ pdfLoadingPath' = 0
    /\ pdfLoadPhase' = "idle"
    /\ UNCHANGED <<now, cacheUnderTest, pdfCache, pdfDocument, hideTimers, destroyCount>>
    /\ UNCHANGED_Image /\ UNCHANGED_Page

\* hidePDF(): starts the 300 ms timer
HidePDF ==
    /\ cacheUnderTest = "pdf"
    /\ hideTimers = 0
    /\ hideTimers' = 1
    /\ cacheEvent' = Event("hidePDF", 0, {})
    /\ UNCHANGED <<now, cacheUnderTest, pdfCache, pdfDocument, pdfLoadingPath,
                   pdfLoadPhase, destroyCount>>
    /\ UNCHANGED_Image /\ UNCHANGED_Page

\* the timer of hidePDF fires: the active document is destroyed
HideTimerFires ==
    /\ cacheUnderTest = "pdf"
    /\ hideTimers > 0
    /\ hideTimers' = hideTimers - 1
    /\ destroyCount' = IF pdfDocument # 0 THEN Destroy(destroyCount, pdfDocument)
                       ELSE destroyCount
    /\ pdfDocument' = 0
    /\ cacheEvent' = Event("hideTimer", 0, {})
    /\ UNCHANGED <<now, cacheUnderTest, pdfCache, pdfLoadingPath, pdfLoadPhase>>
    /\ UNCHANGED_Image /\ UNCHANGED_Page

\* App.performMemoryCleanup calls performPdfMemoryCleanup: idle documents
\* are destroyed and removed, old rendered pages are removed
PdfMemoryCleanup ==
    /\ cacheUnderTest \in {"pdf", "page"}
    /\ pdfCache # <<>> \/ renderedPageCache # <<>>
    /\ pdfCache' = performPdfMemoryCleanup(pdfCache, now)
    /\ destroyCount' = DestroyAll(destroyCount, pdfCache,
                                  Removed(pdfCache, performPdfMemoryCleanup(pdfCache, now)))
    /\ renderedPageCache' = performPdfMemoryCleanup_pages(renderedPageCache, now)
    /\ cacheEvent' =
          IF cacheUnderTest = "pdf"
          THEN Event("pdfSweep", 0, Removed(pdfCache, performPdfMemoryCleanup(pdfCache, now)))
          ELSE Event("pageSweep", 0,
                     Removed(renderedPageCache,
                             performPdfMemoryCleanup_pages(renderedPageCache, now)))
    /\ UNCHANGED <<now, cacheUnderTest, pdfDocument, pdfLoadingPath, pdfLoadPhase,
                   hideTimers, pagePending, canvas>>
    /\ UNCHANGED_Image

\* clearPdfCache: every cached document is destroyed, both caches are emptied
ClearPdfCache ==
    /\ cacheUnderTest \in {"pdf", "page"}
    /\ pdfCache # <<>> \/ renderedPageCache # <<>>
    /\ destroyCount' = DestroyAll(destroyCount, pdfCache, MapKeys(pdfCache))
    /\ pdfCache' = <<>>
    /\ renderedPageCache' = <<>>
    /\ cacheEvent' = Event(IF cacheUnderTest = "pdf" THEN "pdfClear" ELSE "pageClear", 0,
                           MapKeys(pdfCache) \cup MapKeys(renderedPageCache))
    /\ UNCHANGED <<now, cacheUnderTest, pdfDocument, pdfLoadingPath, pdfLoadPhase,
                   hideTimers, pagePending, canvas>>
    /\ UNCHANGED_Image

\* renderPage finds a valid bitmap in the cache
RenderPageFromCache ==
    \E key \in PageKeys :
        /\ cacheUnderTest = "page"
        /\ CachedPageValid(renderedPageCache, key, now)
        /\ canvas' = key
        /\ cacheEvent' = Event("pageHit", key, {})
        /\ UNCHANGED <<now, cacheUnderTest, renderedPageCache, pagePending>>
        /\ UNCHANGED_Image /\ UNCHANGED_Pdf

\* renderPage finds no valid bitmap and awaits page.render
RenderPageStart ==
    \E key \in PageKeys :
        /\ cacheUnderTest = "page"
        /\ ~CachedPageValid(renderedPageCache, key, now)
        /\ pagePending[key] = 0
        /\ Cardinality({k \in PageKeys : pagePending[k] > 0}) < MaxPending
        /\ renderedPageCache' = getCachedRenderedPage(renderedPageCache, key, now)
        /\ pagePending' = [pagePending EXCEPT ![key] = 1]
        /\ cacheEvent' = Event("pageRenderStart", key,
                               Removed(renderedPageCache,
                                       getCachedRenderedPage(renderedPageCache, key, now)))
        /\ UNCHANGED <<now, cacheUnderTest, canvas>>
        /\ UNCHANGED_Image /\ UNCHANGED_Pdf

\* page.render resolves: the bitmap is cached
RenderPageDone ==
    \E key \in PageKeys :
        /\ cacheUnderTest = "page"
        /\ pagePending[key] > 0
        /\ pagePending' = [pagePending EXCEPT ![key] = 0]
        /\ renderedPageCache' = cacheRenderedPage(renderedPageCache, key, now)
        /\ canvas' = key
        /\ cacheEvent' = Event("pageRenderDone", key,
                               Removed(renderedPageCache,
                                       cacheRenderedPage(renderedPageCache, key, now)))
        /\ UNCHANGED <<now, cacheUnderTest>>
        /\ UNCHANGED_Image /\ UNCHANGED_Pdf

CacheIdle ==
    /\ now = 0
    /\ imageCache = <<>>
    /\ imagePending = {}
    /\ pdfCache = <<>>
    /\ pdfDocument = 0
    /\ pdfLoadingPath = 0
    /\ pdfLoadPhase = "idle"
    /\ hideTimers = 0
    /\ destroyCount = [d \in PdfPaths |-> 0]
    /\ renderedPageCache = <<>>
    /\ pagePending = [k \in PageKeys |-> 0]
    /\ canvas = 0
    /\ cacheEvent = Event("none", 0, {})

\* ------------------------------------------------------------------------
\* The retry loops: App.retryWithBackoff(operation, maxRetries, baseDelay) and
\* ContentController.retryPdfLoadWithBackoff(pdfPath, maxRetries).  Delays
\* are counted in units of 500 ms.  showTemporaryMessage and the console are
\* left out.
\* ------------------------------------------------------------------------
\* the largest number of attempts a call of a retry loop is given
MaxAttempts == 3
\* baseDelay: the default (1000 ms) and the argument of loadInitialData (2000 ms)
BaseDelays == {2, 4}
\* the factor of retryPdfLoadWithBackoff (2000 ms)
PdfBaseDelay == 4
\* Math.random() * 1000, below 1000 ms
Jitters == {0, 1}

\* the messages of the errors an operation rejects with: a network failure,
\* an absent resource (HTTP 404) and a corrupt resource (invalid PDF)
OperationErrors == {"network", "404", "invalidPdf"}
\* the error retryWithBackoff throws when checkNetworkConnectivity is false
Offline == "offline"
\* the values an operation resolves with; loadPDF resolves with undefined
OperationValues(fn) ==
    IF fn = "retryWithBackoff" THEN {"value1", "value2"} ELSE {"undefined"}

VARIABLE
    retry               \* the call of a retry loop: its arguments, its position, its history

\* no retry loop is running
RetryIdle ==
    [fn |-> "none", maxRetries |-> 0, baseDelay |-> 0, attempt |-> 0, pc |-> "none",
     invocations |-> 0, checks |-> 0, outcomes |-> <<>>, waits |-> <<>>, delay |-> 0,
     result |-> NULL, thrownAttempts |-> 0, thrownMessage |-> NULL]

\* the call fn(..., retries, baseDelay) at the top of its loop, attempt = 1
RetryCall(fn, retries, baseDelay) ==
    [RetryIdle EXCEPT !.fn = fn, !.maxRetries = retries, !.baseDelay = baseDelay,
                      !.attempt = 1, !.pc = "attempt"]

\* the calls of the two loops with 1..MaxAttempts attempts
RetryCalls ==
    {RetryCall("retryWithBackoff", n, b) : n \in 1..MaxAttempts, b \in BaseDelays}
    \cup {RetryCall("retryPdfLoadWithBackoff", n - 1, PdfBaseDelay) : n \in 1..MaxAttempts}

RECURSIVE Pow2(_)
\* Math.pow(2, n)
Pow2(n) == IF n = 0 THEN 1 ELSE 2 * Pow2(n - 1)

\* mutation: the loops run one attempt more
LoopBound_OneMore(r) ==
    IF r.fn = "retryWithBackoff" THEN r.maxRetries + 1 ELSE r.maxRetries + 2

\* the last value of attempt: for (attempt = 1; attempt <= maxRetries; ...) in
\* retryWithBackoff, attempt <= maxRetries + 1 in retryPdfLoadWithBackoff
LoopBound(r) ==
    IF r.fn = "retryWithBackoff" THEN r.maxRetries ELSE r.maxRetries + 1

\* mutation: the delay does not grow with the attempt
delay_NoBackoff(baseDelay, attempt, jitter) == baseDelay + jitter

\* const delay = baseDelay * Math.pow(2, attempt - 1) + Math.random() * 1000
delay(baseDelay, attempt, jitter) == baseDelay * Pow2(attempt - 1) + jitter

\* the catch block of the loop body: after the last attempt the loop ends and
\* the function throws, else it waits delay
catchError(r, error, jitter) ==
    LET r1 == [r EXCEPT !.outcomes = Append(@, error)]
    IN IF r.attempt = LoopBound(r)
       THEN [r1 EXCEPT !.pc = "thrown", !.thrownAttempts = LoopBound(r),
                       !.thrownMessage = error]
       ELSE [r1 EXCEPT !.pc = "backoff", !.delay = delay(r.baseDelay, r.attempt, jitter)]

\* retryWithBackoff, attempt > 1: await this.checkNetworkConnectivity()
CheckNetworkConnectivity ==
    \E isConnected \in BOOLEAN, jitter \in Jitters :
        /\ retry.fn = "retryWithBackoff"
        /\ retry.pc = "attempt"
        /\ retry.attempt > 1
        /\ retry' = IF isConnected
                    THEN [retry EXCEPT !.checks = @ + 1, !.pc = "connected"]
                    ELSE catchError([retry EXCEPT !.checks = @ + 1], Offline, jitter)

\* operation() or this.pdfViewer.loadPDF(pdfPath) is called and awaited
InvokeOperation ==
    /\ \/ retry.pc = "connected"
       \/ /\ retry.pc = "attempt"
          /\ retry.fn = "retryPdfLoadWithBackoff" \/ retry.attempt = 1
    /\ retry' = [retry EXCEPT !.invocations = @ + 1, !.pc = "operation"]

\* the operation resolves: retryWithBackoff returns its value,
\* retryPdfLoadWithBackoff returns
OperationResolves ==
    \E value \in OperationValues(retry.fn) :
        /\ retry.pc = "operation"
        /\ retry' = [retry EXCEPT !.pc = "returned", !.result = value,
                                  !.outcomes = Append(@, value)]

\* the operation rejects
OperationRejects ==
    \E error \in OperationErrors, jitter \in Jitters :
        /\ retry.pc = "operation"
        /\ retry' = catchError(retry, error, jitter)

\* the timer of await new Promise(resolve => setTimeout(resolve, delay))
\* fires: the next attempt
RetryTimerFires ==
    /\ retry.pc = "backoff"
    /\ retry' = [retry EXCEPT !.waits = Append(@, retry.delay), !.delay = 0,
                              !.attempt = @ + 1, !.pc = "attempt"]

\* ------------------------------------------------------------------------
\* App.withTimeout (src/js/app.js)
\* ------------------------------------------------------------------------
\* the clock stops at MaxClock
MaxClock == 4
\* the timeoutMs arguments, in ticks of the clock
TimeoutMs == {1, 2, 3}
OperationNames == {"Operation", "CSV"}
\* values and errors are tuples, so that any two of them can be compared
PromiseValues == {<<"value1">>, <<"value2">>}
PromiseErrors == {<<"network">>, <<"parse">>}

\* one call of withTimeout: the promise passed in, the timer of setTimeout
\* (timeoutId), the promise returned (result) and the clock
VARIABLE timed

Pending == [state |-> "pending", with |-> <<>>]
Fulfilled(value) == [state |-> "fulfilled", with |-> value]
Rejected(error) == [state |-> "rejected", with |-> error]

\* new Error(`${operationName} 시간 초과 (${timeoutMs / 1000}초). ...`)
TimeoutError(operationName, timeoutMs) ==
    <<"timeout", operationName, timeoutMs>>

TimedIdle ==
    [called |-> FALSE, operationName |-> NULL, timeoutMs |-> 0, clock |-> 0,
     promise |-> Pending, timeoutId |-> "none", dueAt |-> 0, result |-> Pending,
     settlements |-> 0]

\* withTimeout(promise, timeoutMs, operationName): the executor starts the
\* timer and subscribes to the promise
withTimeout(timeoutMs, operationName) ==
    [TimedIdle EXCEPT !.called = TRUE, !.operationName = operationName,
                      !.timeoutMs = timeoutMs, !.timeoutId = "pending",
                      !.dueAt = timeoutMs]

WithTimeoutCalls ==
    {withTimeout(ms, name) : ms \in TimeoutMs, name \in OperationNames}

\* resolve and reject of a settled promise change nothing
\* (mutation: every call of resolve or reject takes effect)
Settle_Overwrites(t, outcome) ==
    [t EXCEPT !.result = outcome, !.settlements = @ + 1]

\* resolve(result) or reject(error) of the promise withTimeout returns
Settle(t, outcome) ==
    IF t.result.state = "pending"
    THEN [t EXCEPT !.result = outcome, !.settlements = @ + 1]
    ELSE t

\* clearTimeout(timeoutId): a timer that has fired stays fired
clearTimeout(t) ==
    IF t.timeoutId = "pending" THEN [t EXCEPT !.timeoutId = "cleared"] ELSE t

\* time passes; a due timer may fire late
TimedTick ==
    /\ timed.called
    /\ timed.clock < MaxClock
    /\ timed' = [timed EXCEPT !.clock = @ + 1]

\* the promise fulfils: .then(result => { clearTimeout(timeoutId); resolve(result) })
PromiseFulfils ==
    \E value \in PromiseValues :
        /\ timed.called
        /\ timed.promise.state = "pending"
        /\ timed' = Settle(clearTimeout([timed EXCEPT !.promise = Fulfilled(value)]),
                           Fulfilled(value))

\* the promise rejects: .catch(error => { clearTimeout(timeoutId); reject(error) })
PromiseRejects ==
    \E error \in PromiseErrors :
        /\ timed.called
        /\ timed.promise.state = "pending"
        /\ timed' = Settle(clearTimeout([timed EXCEPT !.promise = Rejected(error)]),
                           Rejected(error))

\* the callback of setTimeout runs: reject(new Error(...))
TimeoutFires ==
    /\ timed.timeoutId = "pending"
    /\ timed.clock >= timed.dueAt
    /\ timed' = Settle([timed EXCEPT !.timeoutId = "fired"],
                       Rejected(TimeoutError(timed.operationName, timed.timeoutMs)))

\* ------------------------------------------------------------------------
\* PDFViewer: the pager (src/js/pdfViewer.js)
\* ------------------------------------------------------------------------
\* calls of the public methods of the viewer in one behaviour
MaxCalls == 3
\* pending 300 ms timers of hidePDF
MaxHideTimers == 1

\* the paths passed to loadPDF (0 is the empty path); with two paths the
\* document cache never fills, so that cachePDF evicts nothing here
ViewerPaths == {1, 2}
\* pdfDocument.numPages of the document at a path
numPages(pdfPath) == IF pdfPath = 1 THEN 2 ELSE 1
\* the pageNumber arguments of goToPage and renderPage
PageNumbers == 0..3

RECURSIVE GCD(_, _)
GCD(a, b) == IF b = 0 THEN a ELSE GCD(b, a % b)
\* the scale is a positive rational <<numerator, denominator>> in lowest
\* terms: the arithmetic of the zoom is modelled over the reals
Rat(n, d) == <<n \div GCD(n, d), d \div GCD(n, d)>>
Times(x, y) == Rat(x[1] * y[1], x[2] * y[2])
Less(x, y) == x[1] * y[2] < y[1] * x[2]
MathMin(x, y) == IF Less(y, x) THEN y ELSE x
MathMax(x, y) == IF Less(x, y) THEN y ELSE x
One == Rat(1, 1)
MinScale == Rat(1, 2)
MaxScale == Rat(3, 1)
\* the arguments of setZoom: 0.4, 2.5 and 4.0
SetZoomArgs == {Rat(2, 5), Rat(5, 2), Rat(4, 1)}
\* the values of Math.min(containerWidth / viewport.width, 2.0) in resetZoom
FitScales == {Rat(3, 10), Rat(3, 2), Rat(2, 1)}

\* the PDFViewer object, its asynchronous operations in flight and its timers
VARIABLE viewer

\* a PDFDocumentProxy: the path it was loaded from and the number of the
\* getDocument call that produced it
Document(pdfPath, task) == [path |-> pdfPath, task |-> task]
\* null in pdfDocument
NoDocument == Document(0, 0)
\* the cacheKey of renderPage; NoKey is the cleared canvas
CacheKey(document, pageNumber, scale) == <<document.path, pageNumber, scale>>
NoKey == <<0, 0, One>>
NoLoad == [path |-> 0, phase |-> "idle", task |-> 0]
ViewerEvent(op, n, s) == [op |-> op, n |-> n, s |-> s]

ViewerInit ==
    [pdfDocument |-> NoDocument, currentPage |-> 1, totalPages |-> 0, scale |-> One,
     isLoading |-> FALSE, pdfCache |-> <<>>,
     load |-> NoLoad,            \* what the running loadPDF awaits
     tasks |-> 0,                \* calls of pdfjsLib.getDocument so far
     loadTimeouts |-> {},        \* documents whose 15 s timer is pending
     hideTimers |-> 0,           \* pending timers of hidePDF
     hidden |-> NoDocument,      \* the active document at the hidePDF call
     destroyed |-> {},           \* documents and loading tasks destroyed
     pending |-> {},             \* renderPage and resetZoom calls in flight
     rendered |-> {},            \* keys that were put in renderedPageCache
     stored |-> {},              \* per key, the bitmap last cached under it
     canvas |-> NoKey,           \* what is drawn: document, page, scale
     errorShown |-> FALSE,       \* showError / hideError
     calls |-> 0,
     event |-> ViewerEvent("none", 0, One)]

\* loadPDF returns: hideLoadingState, and the finally block
loadPDF_return(v) ==
    [v EXCEPT !.isLoading = FALSE, !.load = NoLoad,
              !.event = ViewerEvent("loadPDFResolved", v.load.path, v.scale)]

\* loadPDF throws: the catch block shows the error and rethrows, and the
\* finally block
loadPDF_catch(v) ==
    [v EXCEPT !.isLoading = FALSE, !.load = NoLoad, !.errorShown = TRUE,
              !.event = ViewerEvent("loadPDFRejected", v.load.path, v.scale)]

\* cachedPage: the bitmap renderedPageCache holds under cacheKey
Bitmap(v, cacheKey) == (CHOOSE e \in v.stored : e.key = cacheKey).bitmap

\* renderPage(pageNumber) up to its first await.  hit: getCachedRenderedPage
\* returned the bitmap.  awaitedBy names the caller that awaits the render.
renderPage(v, pageNumber, hit, awaitedBy) ==
    IF v.pdfDocument = NoDocument \/ pageNumber < 1 \/ pageNumber > v.totalPages
    THEN v
    ELSE IF hit
    THEN [v EXCEPT !.canvas = Bitmap(v, CacheKey(v.pdfDocument, pageNumber, v.scale)),
                   !.currentPage = pageNumber]
    ELSE [v EXCEPT !.pending = @ \cup
             {[kind |-> "renderPage", document |-> v.pdfDocument,
               pageNumber |-> pageNumber,
               cacheKey |-> CacheKey(v.pdfDocument, pageNumber, v.scale),
               phase |-> "getPage", viewport |-> One, awaitedBy |-> awaitedBy]}]

\* TRUE iff renderPage(pageNumber) returns without awaiting
renderPage_sync(v, pageNumber, hit) ==
    v.pdfDocument = NoDocument \/ pageNumber < 1 \/ pageNumber > v.totalPages \/ hit

\* getCachedRenderedPage can return a bitmap only for a key that was cached
CanHit(v, pageNumber, hit) ==
    hit => CacheKey(v.pdfDocument, pageNumber, v.scale) \in v.rendered

setZoom(v, scale, hit) ==
    IF v.pdfDocument = NoDocument \/ Less(scale, MinScale) \/ Less(MaxScale, scale)
    THEN v
    ELSE renderPage([v EXCEPT !.scale = scale], v.currentPage, hit, "none")

\* a public method was called
Called(v, op, n, s) ==
    [v EXCEPT !.calls = @ + 1, !.event = ViewerEvent(op, n, s)]

\* loadPDF(pdfPath) up to its first await (the clock is not part of the
\* pager: Date.now() is 0 here)
loadPDF_call(v, pdfPath, hit) ==
    IF v.isLoading THEN [v EXCEPT !.event = ViewerEvent("loadPDFIgnored", pdfPath, v.scale)]
    ELSE IF pdfPath = 0
    THEN [v EXCEPT !.errorShown = TRUE,
                   !.event = ViewerEvent("loadPDFRejected", pdfPath, v.scale)]
    ELSE IF MapHas(v.pdfCache, pdfPath)
    THEN LET cachedPdf == MapGet(v.pdfCache, pdfPath)
             v1 == [v EXCEPT !.isLoading = TRUE, !.errorShown = FALSE,
                             !.load = [path |-> pdfPath, phase |-> "renderPage", task |-> 0],
                             !.pdfDocument = cachedPdf.document,
                             !.totalPages = numPages(cachedPdf.document.path),
                             !.currentPage = 1,
                             !.pdfCache = MapSet(@, [cachedPdf EXCEPT !.accessCount = @ + 1,
                                                                      !.lastAccess = 0])]
         IN IF hit THEN loadPDF_return(renderPage(v1, 1, hit, "loadPDF"))
            ELSE renderPage(v1, 1, hit, "loadPDF")
    ELSE [v EXCEPT !.isLoading = TRUE, !.errorShown = FALSE,
                   !.load = [path |-> pdfPath, phase |-> "probe", task |-> 0]]

\* a call of loadPDF
LoadPDF ==
    \E pdfPath \in ViewerPaths \cup {0}, hit \in BOOLEAN :
        /\ viewer.calls < MaxCalls
        /\ hit => /\ ~viewer.isLoading
                  /\ MapHas(viewer.pdfCache, pdfPath)
                  /\ CacheKey(MapGet(viewer.pdfCache, pdfPath).document, 1, viewer.scale)
                         \in viewer.rendered
        /\ viewer' = loadPDF_call(Called(viewer, "loadPDF", pdfPath, viewer.scale), pdfPath, hit)

\* the HEAD request of loadPDF answers; when response.ok, loadPDF calls
\* pdfjsLib.getDocument and starts the 15 s timer
ViewerProbeAnswers ==
    \E ok \in BOOLEAN :
        /\ viewer.load.phase = "probe"
        /\ viewer' =
             IF ok
             THEN [viewer EXCEPT !.tasks = @ + 1,
                                 !.load.phase = "getDocument",
                                 !.load.task = viewer.tasks + 1,
                                 !.loadTimeouts = @ \cup {Document(viewer.load.path,
                                                                    viewer.tasks + 1)},
                                 !.event = ViewerEvent("probeOk", viewer.load.path,
                                                       viewer.scale)]
             ELSE loadPDF_catch(viewer)

\* loadingTask.promise fulfils first: the document becomes the active one,
\* is cached, and loadPDF awaits renderPage(1)
GetDocumentResolves ==
    LET document == Document(viewer.load.path, viewer.load.task)
    IN /\ viewer.load.phase = "getDocument"
       /\ document \notin viewer.destroyed
       /\ viewer' = renderPage(
             [viewer EXCEPT !.pdfDocument = document,
                            !.totalPages = numPages(document.path),
                            !.currentPage = 1,
                            !.pdfCache = cachePDF(@, document.path, document, 0),
                            !.load.phase = "renderPage",
                            !.event = ViewerEvent("getDocumentResolved", document.path,
                                                  viewer.scale)],
             1, FALSE, "loadPDF")

\* loadingTask.promise rejects first
GetDocumentRejects ==
    /\ viewer.load.phase = "getDocument"
    /\ viewer' = loadPDF_catch(viewer)

\* the 15 s timer of a loadPDF call fires: loadingTask.destroy(), and the
\* rejection of timeoutPromise, which ends the race if it is still open
LoadTimeoutFires ==
    \E document \in viewer.loadTimeouts :
        LET v1 == [viewer EXCEPT !.loadTimeouts = @ \ {document},
                                 !.destroyed = @ \cup {document},
                                 !.event = ViewerEvent("loadTimeout", document.path,
                                                       viewer.scale)]
        IN viewer' = IF viewer.load.phase = "getDocument"
                        /\ viewer.load.task = document.task
                     THEN loadPDF_catch(v1)
                     ELSE v1

\* the catch block of renderPage, and the return to the caller
renderPage_catch(v, r) ==
    LET v1 == [v EXCEPT !.pending = @ \ {r}, !.errorShown = TRUE,
                        !.event = ViewerEvent("renderFailed", r.pageNumber, v.scale)]
    IN IF r.awaitedBy = "loadPDF" THEN loadPDF_return(v1) ELSE v1

\* pdfDocument.getPage settles for a renderPage in flight: the viewport is
\* computed under the scale of this moment
GetPageSettles ==
    \E r \in viewer.pending :
        /\ r.kind = "renderPage"
        /\ r.phase = "getPage"
        /\ viewer' =
             IF r.document \in viewer.destroyed
             THEN renderPage_catch(viewer, r)
             ELSE [viewer EXCEPT !.pending = (@ \ {r}) \cup
                                     {[r EXCEPT !.phase = "render",
                                                !.viewport = viewer.scale]},
                                 !.event = ViewerEvent("getPage", r.pageNumber,
                                                       viewer.scale)]

\* page.render settles: the bitmap is cached under the key computed at the
\* start, and currentPage is updated
PageRenderSettles ==
    \E r \in viewer.pending :
        /\ r.phase = "render"
        /\ viewer' =
             IF r.document \in viewer.destroyed
             THEN renderPage_catch(viewer, r)
             ELSE LET v1 == [viewer EXCEPT
                                !.pending = @ \ {r},
                                !.rendered = @ \cup {r.cacheKey},
                                !.stored = {e \in @ : e.key # r.cacheKey} \cup
                                    {[key |-> r.cacheKey,
                                      bitmap |-> <<r.document.path, r.pageNumber,
                                                   r.viewport>>]},
                                !.canvas = <<r.document.path, r.pageNumber, r.viewport>>,
                                !.currentPage = r.pageNumber,
                                !.event = ViewerEvent("rendered", r.pageNumber,
                                                      viewer.scale)]
                  IN IF r.awaitedBy = "loadPDF" THEN loadPDF_return(v1) ELSE v1

NextPage ==
    \E hit \in BOOLEAN :
        /\ viewer.calls < MaxCalls
        /\ CanHit(viewer, viewer.currentPage + 1, hit)
        /\ viewer' =
             LET v == Called(viewer, "nextPage", 0, viewer.scale)
             IN IF v.pdfDocument = NoDocument \/ v.currentPage >= v.totalPages
                THEN v
                ELSE renderPage(v, v.currentPage + 1, hit, "none")

PreviousPage ==
    \E hit \in BOOLEAN :
        /\ viewer.calls < MaxCalls
        /\ CanHit(viewer, viewer.currentPage - 1, hit)
        /\ viewer' =
             LET v == Called(viewer, "previousPage", 0, viewer.scale)
             IN IF v.pdfDocument = NoDocument \/ v.currentPage <= 1
                THEN v
                ELSE renderPage(v, v.currentPage - 1, hit, "none")

GoToPage ==
    \E pageNumber \in PageNumbers, hit \in BOOLEAN :
        /\ viewer.calls < MaxCalls
        /\ CanHit(viewer, pageNumber, hit)
        /\ viewer' =
             LET v == Called(viewer, "goToPage", pageNumber, viewer.scale)
             IN IF v.pdfDocument = NoDocument \/ pageNumber < 1
                   \/ pageNumber > v.totalPages
                THEN v
                ELSE renderPage(v, pageNumber, hit, "none")

\* a direct call of renderPage
RenderPage ==
    \E pageNumber \in PageNumbers, hit \in BOOLEAN :
        /\ viewer.calls < MaxCalls
        /\ CanHit(viewer, pageNumber, hit)
        /\ viewer' = renderPage(Called(viewer, "renderPage", pageNumber, viewer.scale),
                                pageNumber, hit, "none")

\* TRUE iff the page setZoom(scale) re-renders can come from the cache
CanHitAt(v, scale, hit) ==
    hit => CacheKey(v.pdfDocument, v.currentPage, scale) \in v.rendered

ZoomIn ==
    \E hit \in BOOLEAN :
        LET newScale == MathMin(Times(viewer.scale, Rat(5, 4)), MaxScale)
        IN /\ viewer.calls < MaxCalls
           /\ CanHitAt(viewer, newScale, hit)
           /\ viewer' =
                LET v == Called(viewer, "zoomIn", 0, viewer.scale)
                IN IF v.pdfDocument = NoDocument THEN v ELSE setZoom(v, newScale, hit)

ZoomOut ==
    \E hit \in BOOLEAN :
        LET newScale == MathMax(Times(viewer.scale, Rat(4, 5)), MinScale)
        IN /\ viewer.calls < MaxCalls
           /\ CanHitAt(viewer, newScale, hit)
           /\ viewer' =
                LET v == Called(viewer, "zoomOut", 0, viewer.scale)
                IN IF v.pdfDocument = NoDocument THEN v ELSE setZoom(v, newScale, hit)

SetZoom ==
    \E scale \in SetZoomArgs, hit \in BOOLEAN :
        /\ viewer.calls < MaxCalls
        /\ CanHitAt(viewer, scale, hit)
        /\ viewer' = setZoom(Called(viewer, "setZoom", 0, scale), scale, hit)

\* resetZoom up to its await of getPage(currentPage)
ResetZoom ==
    /\ viewer.calls < MaxCalls
    /\ viewer' =
         LET v == Called(viewer, "resetZoom", 0, viewer.scale)
         IN IF v.pdfDocument = NoDocument THEN v
            ELSE [v EXCEPT !.pending = @ \cup
                     {[kind |-> "resetZoom", document |-> v.pdfDocument,
                       pageNumber |-> v.currentPage, cacheKey |-> NoKey,
                       phase |-> "getPage", viewport |-> One, awaitedBy |-> "none"]}]

\* getPage settles for a resetZoom in flight: setZoom(fitScale), unless
\* getPage rejected
ResetZoomGetPageSettles ==
    \E r \in viewer.pending, fitScale \in FitScales, hit \in BOOLEAN :
        /\ r.kind = "resetZoom"
        /\ CanHitAt(viewer, fitScale, hit)
        /\ viewer' =
             LET v == [viewer EXCEPT !.pending = @ \ {r},
                                     !.event = ViewerEvent("resetZoomFit", 0, fitScale)]
             IN IF r.document \in viewer.destroyed THEN v ELSE setZoom(v, fitScale, hit)

\* hidePDF(): starts the 300 ms timer
ViewerHidePDF ==
    /\ viewer.calls < MaxCalls
    /\ viewer.hideTimers < MaxHideTimers
    /\ viewer' = [Called(viewer, "hidePDF", 0, viewer.scale) EXCEPT
                     !.hideTimers = @ + 1, !.hidden = viewer.pdfDocument]

\* the timer of hidePDF fires: the active document is destroyed and the
\* pager state is reset
HideTimeoutFires ==
    /\ viewer.hideTimers > 0
    /\ viewer' = [viewer EXCEPT
                     !.hideTimers = @ - 1,
                     !.hidden = NoDocument,
                     !.destroyed = IF viewer.pdfDocument # NoDocument
                                   THEN @ \cup {viewer.pdfDocument} ELSE @,
                     !.pdfDocument = NoDocument,
                     !.canvas = NoKey,
                     !.currentPage = 1, !.totalPages = 0, !.scale = One,
                     !.event = ViewerEvent("hidden", 0, One)]

\* ------------------------------------------------------------------------
\* DataManager: the catalog (src/js/dataManager.js)
\* ------------------------------------------------------------------------
\* rows of a dataset Papa.parse delivers
MaxRows == 2
\* loadCSVData calls awaiting their fetch at the same time
MaxCsvLoads == 2
\* calls of loadCSVData and retryLoadCSVData in one behaviour
MaxCsvCalls == 3

\* A cell is a string, modelled as the tuple of its characters.
Y2022 == <<"2", "0", "2", "2">>
Y2021 == <<"2", "0", "2", "1">>
\* the rows of results.data
Rows == {<<Y2022, <<"6">>, <<"1">>>>,
         <<Y2022, <<"0", "6">>, <<"1">>>>,
         <<Y2022, <<" ", "6">>, <<"2">>>>,
         <<Y2021, <<"1", "1">>, <<"1">>>>,
         <<Y2021, <<"6">>, <<"2">>>>,
         <<Y2022, <<"6", "x">>, <<"1">>>>,             \* a cell that is no numeral
         <<<<"1", "9", "9", "9">>, <<"6">>, <<"1">>>>, \* the year out of range
         <<Y2022, <<"1", "3">>, <<"1">>>>,             \* the month out of range
         <<Y2022, <<>>, <<"1">>>>,                     \* an empty cell
         <<<<"y">>, <<"m">>, <<"q">>>>,                \* a header
         <<Y2022, <<"6">>>>}                           \* two cells
Datasets == UNION {[1..n -> Rows] : n \in 0..MaxRows}

\* NaN, as the result of parseInt and Number
NaN == -1
DigitChars == {"0", "1", "2", "3", "4", "5", "6", "7", "8", "9"}
DigitValue(c) ==
    CASE c = "0" -> 0 [] c = "1" -> 1 [] c = "2" -> 2 [] c = "3" -> 3 [] c = "4" -> 4
      [] c = "5" -> 5 [] c = "6" -> 6 [] c = "7" -> 7 [] c = "8" -> 8 [] c = "9" -> 9

RECURSIVE trimStart(_)
trimStart(s) == IF s # <<>> /\ Head(s) = " " THEN trimStart(Tail(s)) ELSE s
RECURSIVE trimEnd(_)
trimEnd(s) == IF s # <<>> /\ s[Len(s)] = " " THEN trimEnd(SubSeq(s, 1, Len(s) - 1)) ELSE s
\* String.prototype.trim
trim(s) == trimEnd(trimStart(s))

\* the arguments of the queries: the cells of the rows, as they are and trimmed
Cells == UNION {{row[i] : i \in DOMAIN row} : row \in Rows}
QueryArgs == Cells \cup {trim(c) : c \in Cells}

RECURSIVE DigitPrefixValue(_, _, _)
\* the value of the longest prefix of digits of s from position i on, after
\* the digits read so far gave acc (NaN: none read)
DigitPrefixValue(s, i, acc) ==
    IF i > Len(s) \/ s[i] \notin DigitChars THEN acc
    ELSE DigitPrefixValue(s, i + 1, (IF acc = NaN THEN 0 ELSE acc) * 10 + DigitValue(s[i]))

\* parseInt(s): leading white space is skipped and the longest prefix of
\* decimal digits is read; NaN if there is none
parseInt(s) == DigitPrefixValue(trimStart(s), 1, NaN)

\* Number(s), as isNaN(s) converts a string: the whole trimmed string must
\* be a numeral, and the empty string is 0
Number(s) ==
    IF trim(s) = <<>> THEN 0
    ELSE IF \A i \in DOMAIN trim(s) : trim(s)[i] \in DigitChars
    THEN DigitPrefixValue(trim(s), 1, NaN)
    ELSE NaN

\* the callback of results.data.filter in loadCSVData
IsValidRow(row) ==
    /\ Len(row) >= 3
    /\ row[1] # <<>> /\ row[2] # <<>> /\ row[3] # <<>>
    /\ parseInt(trim(row[1])) # NaN
    /\ parseInt(trim(row[2])) # NaN
    /\ parseInt(trim(row[3])) # NaN
    /\ parseInt(trim(row[1])) >= 2000 /\ parseInt(trim(row[1])) <= 2100
    /\ parseInt(trim(row[2])) >= 1 /\ parseInt(trim(row[2])) <= 12
    /\ parseInt(trim(row[3])) >= 1 /\ parseInt(trim(row[3])) <= 999

\* validData.map(row => ({year, month, questionNumber}))
Record(row) ==
    [year |-> trim(row[1]), month |-> trim(row[2]), questionNumber |-> trim(row[3])]

validData(rows) == SelectSeq(rows, IsValidRow)

Records(rows) == [i \in DOMAIN validData(rows) |-> Record(validData(rows)[i])]

\* the constructor of ProblemData throws for these arguments
ProblemData_throws(year, month, questionNumber) ==
    \/ year = <<>> \/ month = <<>> \/ questionNumber = <<>>
    \/ Number(year) = NaN \/ Number(month) = NaN \/ Number(questionNumber) = NaN

RECURSIVE Unique(_)
\* [...new Set(seq)]: the first occurrence of every element, in order
Unique(seq) ==
    IF seq = <<>> THEN <<>>
    ELSE LET init == Unique(SubSeq(seq, 1, Len(seq) - 1))
         IN IF \E i \in DOMAIN init : init[i] = seq[Len(seq)]
            THEN init ELSE Append(init, seq[Len(seq)])

RECURSIVE Insert(_, _, _)
\* x placed into the sorted sequence behind every element that does not
\* compare greater (sign 1: ascending parseInt, sign -1: descending)
Insert(sorted, x, sign) ==
    IF sorted = <<>> THEN <<x>>
    ELSE IF sign * (parseInt(sorted[Len(sorted)]) - parseInt(x)) <= 0
    THEN Append(sorted, x)
    ELSE Append(Insert(SubSeq(sorted, 1, Len(sorted) - 1), x, sign), sorted[Len(sorted)])

RECURSIVE sort(_, _)
\* Array.prototype.sort with the comparator sign * (parseInt(a) - parseInt(b)):
\* a stable sort
sort(seq, sign) ==
    IF seq = <<>> THEN <<>>
    ELSE Insert(sort(SubSeq(seq, 1, Len(seq) - 1), sign), seq[Len(seq)], sign)

\* seq.map(item => item[field]) over the items that satisfy keep
Column(seq, keep(_), field) ==
    LET kept == SelectSeq(seq, keep)
    IN [i \in DOMAIN kept |-> kept[i][field]]

\* a DataManager object: d.csvData, d.isDataLoaded
getAvailableYears(d) ==
    IF ~d.isDataLoaded \/ Len(d.csvData) = 0 THEN <<>>
    ELSE sort(Unique(Column(d.csvData, LAMBDA item : TRUE, "year")), -1)

getMonthsForYear(d, year) ==
    IF ~d.isDataLoaded \/ Len(d.csvData) = 0 \/ year = <<>> THEN <<>>
    ELSE sort(Unique(Column(d.csvData, LAMBDA item : item.year = year, "month")), 1)

getQuestionsForYearMonth(d, year, month) ==
    IF ~d.isDataLoaded \/ Len(d.csvData) = 0 \/ year = <<>> \/ month = <<>> THEN <<>>
    ELSE sort(Unique(Column(d.csvData,
                            LAMBDA item : item.year = year /\ item.month = month,
                            "questionNumber")), 1)

\* mutation: problemExists compares the year and the month only
problemExists_IgnoresQuestion(d, year, month, questionNumber) ==
    /\ d.isDataLoaded
    /\ \E i \in DOMAIN d.csvData :
          d.csvData[i].year = year /\ d.csvData[i].month = month

problemExists(d, year, month, questionNumber) ==
    /\ d.isDataLoaded
    /\ Len(d.csvData) # 0
    /\ \E i \in DOMAIN d.csvData :
          /\ d.csvData[i].year = year
          /\ d.csvData[i].month = month
          /\ d.csvData[i].questionNumber = questionNumber

getDataStatistics(d) ==
    IF ~d.isDataLoaded \/ Len(d.csvData) = 0
    THEN [totalProblems |-> 0, totalYears |-> 0, totalMonths |-> 0, yearRange |-> <<>>]
    ELSE [totalProblems |-> Len(d.csvData),
          totalYears |-> Len(getAvailableYears(d)),
          totalMonths |-> Len(Unique(Column(d.csvData, LAMBDA item : TRUE, "month"))),
          yearRange |-> <<getAvailableYears(d)[Len(getAvailableYears(d))],
                          getAvailableYears(d)[1]>>]

\* the DataManager, its loads in flight and the timers of retryLoadCSVData
VARIABLE catalog

CatalogEvent(op, rows) == [op |-> op, rows |-> rows]

CatalogInit ==
    [csvData |-> <<>>, isDataLoaded |-> FALSE,
     fetching |-> 0,        \* loadCSVData calls awaiting fetch or response.text
     retryTimers |-> 0,     \* pending 1 s timers of retryLoadCSVData
     calls |-> 0,
     event |-> CatalogEvent("none", <<>>)]

\* loadCSVData(csvPath) up to await fetch; a path that is not a non-empty
\* string throws into the catch block
loadCSVData(c, validPath) ==
    IF validPath
    THEN [c EXCEPT !.fetching = @ + 1,
                   !.event = CatalogEvent("loadCSVData", <<>>)]
    ELSE [c EXCEPT !.isDataLoaded = FALSE,
                   !.event = CatalogEvent("rejected", <<>>)]

\* a call of loadCSVData
LoadCSVData ==
    \E validPath \in BOOLEAN :
        /\ catalog.calls < MaxCsvCalls
        /\ catalog.fetching < MaxCsvLoads
        /\ catalog' = loadCSVData([catalog EXCEPT !.calls = @ + 1], validPath)

\* fetch rejects or is aborted after 10 s, the response is not ok, its text
\* cannot be read or is empty: the catch block
CsvFetchFails ==
    /\ catalog.fetching > 0
    /\ catalog' = [catalog EXCEPT !.fetching = @ - 1, !.isDataLoaded = FALSE,
                                  !.event = CatalogEvent("rejected", <<>>)]

\* Papa.parse completes with results.data = rows; critical: results.errors
\* holds a Delimiter or Quotes error (whatever the rows are then).  The promise returned from inside the
\* try block is not awaited there, so its rejection bypasses the catch block.
CsvParseCompletes ==
    \E rows \in Datasets, critical \in BOOLEAN :
        /\ catalog.fetching > 0
        /\ critical => rows = <<>>
        /\ catalog' =
             IF critical \/ validData(rows) = <<>>
             THEN [catalog EXCEPT !.fetching = @ - 1,
                                  !.event = CatalogEvent(IF critical THEN "rejected"
                                                         ELSE "rejectedNoValidRows",
                                                         rows)]
             ELSE [catalog EXCEPT !.fetching = @ - 1,
                                  !.csvData = Records(rows),
                                  !.isDataLoaded = TRUE,
                                  !.event = CatalogEvent("resolved", rows)]

\* retryLoadCSVData(csvPath) up to its await of the 1 s timer
RetryLoadCSVData ==
    /\ catalog.calls < MaxCsvCalls
    /\ catalog.retryTimers = 0
    /\ catalog' = [catalog EXCEPT !.calls = @ + 1, !.csvData = <<>>,
                                  !.isDataLoaded = FALSE, !.retryTimers = @ + 1,
                                  !.event = CatalogEvent("retryLoadCSVData", <<>>)]

\* the timer of retryLoadCSVData fires: loadCSVData(csvPath)
CsvRetryTimerFires ==
    \E validPath \in BOOLEAN :
        /\ catalog.retryTimers > 0
        /\ catalog.fetching < MaxCsvLoads
        /\ catalog' = loadCSVData([catalog EXCEPT !.retryTimers = @ - 1], validPath)

\* ------------------------------------------------------------------------
\* ProblemData: the resource paths (src/js/dataManager.js), and the image
\* path ContentController.loadProblemForSelection builds.  A string is the
\* tuple of its characters.
\* ------------------------------------------------------------------------
\* the years, months and questions the paths are derived from
PathYears == {2000, 2100}
PathMonths == {1, 9, 11, 12}
PathQuestions == {1, 9, 11, 99, 100, 999}

DigitChar(d) ==
    CASE d = 0 -> "0" [] d = 1 -> "1" [] d = 2 -> "2" [] d = 3 -> "3" [] d = 4 -> "4"
      [] d = 5 -> "5" [] d = 6 -> "6" [] d = 7 -> "7" [] d = 8 -> "8" [] d = 9 -> "9"

RECURSIVE ZeroPadded(_, _)
\* the decimal numeral of n, with leading zeros up to width digits
ZeroPadded(n, width) ==
    IF width <= 1 /\ n < 10 THEN <<DigitChar(n)>>
    ELSE Append(ZeroPadded(n \div 10, width - 1), DigitChar(n % 10))

\* the normalized decimal string of n: no leading zeros
Numeral(n) == ZeroPadded(n, 1)

\* mutation: padStart returns the string as it is
padStart_NoPadding(s, targetLength, padString) ==
    s

RECURSIVE padStart(_, _, _)
\* String.prototype.padStart(targetLength, padString), padString one character
padStart(s, targetLength, padString) ==
    IF Len(s) >= targetLength THEN s
    ELSE padStart(<<padString>> \o s, targetLength, padString)

\* the fields new ProblemData(year, month, questionNumber) sets
NewProblemData(year, month, questionNumber) ==
    [year |-> year, month |-> month, questionNumber |-> questionNumber]

ProblemData_getImagePath(this) ==
    LET paddedMonth == padStart(this.month, 2, "0")
        paddedQuestion == padStart(this.questionNumber, 2, "0")
    IN <<"m", "u", "n", "/">> \o this.year \o paddedMonth \o paddedQuestion
           \o <<".", "p", "n", "g">>

ProblemData_getPDFPath(this) ==
    LET paddedMonth == padStart(this.month, 2, "0")
        paddedQuestion == padStart(this.questionNumber, 2, "0")
    IN <<"s", "o", "l", "/">> \o this.year \o paddedMonth \o paddedQuestion
           \o <<".", "p", "d", "f">>

\* the imagePath loadProblemForSelection(year, month, question) displays
loadProblemForSelection_imagePath(year, month, question) ==
    LET paddedMonth == padStart(month, 2, "0")
        paddedQuestion == padStart(question, 2, "0")
    IN <<"m", "u", "n", "/">> \o year \o paddedMonth \o paddedQuestion
           \o <<".", "p", "n", "g">>

\* the paths derived last, the ones derived before them, and the path
\* loadProblemForSelection built since
VARIABLE paths

\* one derivation: the triple as numbers, and the two paths of its ProblemData
Derived(triple, imagePath, pdfPath) ==
    [triple |-> triple, imagePath |-> imagePath, pdfPath |-> pdfPath]
NoneDerived == Derived(<<0, 0, 0>>, <<>>, <<>>)

NoSelection == [triple |-> <<0, 0, 0>>, imagePath |-> <<>>]

PathsInit ==
    [last |-> NoneDerived, earlier |-> NoneDerived, selection |-> NoSelection]

\* DataManager.createProblemData(year, month, question), then getImagePath()
\* (ContentController.setCurrentProblem) and getPDFPath() (loadSolutionPDF)
DerivePaths ==
    \E y \in PathYears, m \in PathMonths, q \in PathQuestions :
        ~ProblemData_throws(Numeral(y), Numeral(m), Numeral(q))
        /\ LET problemData == NewProblemData(Numeral(y), Numeral(m), Numeral(q))
           IN paths' = [paths EXCEPT
                           !.earlier = paths.last,
                           !.selection = NoSelection,
                           !.last = Derived(<<y, m, q>>,
                                            ProblemData_getImagePath(problemData),
                                            ProblemData_getPDFPath(problemData))]

\* loadProblemForSelection with the selection the last ProblemData was
\* created from
LoadProblemForSelection ==
    /\ paths.last # NoneDerived
    /\ paths.selection = NoSelection
    /\ LET t == paths.last.triple
       IN paths' = [paths EXCEPT
                       !.selection = [triple |-> t,
                                      imagePath |-> loadProblemForSelection_imagePath(
                                          Numeral(t[1]), Numeral(t[2]), Numeral(t[3]))]]

\* ------------------------------------------------------------------------
\* Teardown: the interval timers of App and ContentController, the three
\* caches and App.performAppCleanup (src/js/app.js, src/js/pdfViewer.js)
\* ------------------------------------------------------------------------
\* PDF documents loaded in one behaviour
MaxTeardownLoads == 2
\* beforeunload events in one behaviour
MaxUnloads == 2
\* the paths and keys that are loaded and rendered
TeardownKeys == {1, 2}

\* the application after App.init: its timers and caches
VARIABLE teardown

TeardownEvent(op, cached) == [op |-> op, cached |-> cached]

\* App.constructor starts the memory monitor (timer 1), ContentController's
\* constructor the image sweep (timer 2)
TeardownInit ==
    [memoryMonitorInterval |-> 1,     \* App.memoryMonitorInterval (0 is null)
     memoryCleanupInterval |-> 2,     \* ContentController.memoryCleanupInterval
     timers |-> {1, 2},               \* the interval timers the browser runs
     now |-> 0,
     imageCache |-> <<>>, pdfCache |-> <<>>, renderedPageCache |-> <<>>,
     documents |-> 0,                 \* documents loaded so far
     destroyed |-> {},                \* documents destroy() was called on
     unloads |-> 0,
     event |-> TeardownEvent("none", {})]

\* the documents of the entries of a document cache
CachedDocuments(cache) == {cache[i].document : i \in DOMAIN cache}

\* clearInterval(id)
clearInterval(td, id) == [td EXCEPT !.timers = @ \ {id}]

clearImageCache(td) == [td EXCEPT !.imageCache = <<>>]

\* mutation: cleanup leaves the interval timer running
cleanup_KeepsInterval(td) ==
    clearImageCache(td)

\* ContentController.cleanup
cleanup(td) ==
    clearImageCache(IF td.memoryCleanupInterval # 0
                    THEN [clearInterval(td, td.memoryCleanupInterval)
                             EXCEPT !.memoryCleanupInterval = 0]
                    ELSE td)

\* PDFViewer.clearPdfCache
clearPdfCache(td) ==
    [td EXCEPT !.destroyed = @ \cup CachedDocuments(td.pdfCache),
               !.pdfCache = <<>>,
               !.renderedPageCache = <<>>]

\* App.performAppCleanup
performAppCleanup(td) ==
    clearPdfCache(cleanup(IF td.memoryMonitorInterval # 0
                          THEN [clearInterval(td, td.memoryMonitorInterval)
                                   EXCEPT !.memoryMonitorInterval = 0]
                          ELSE td))

\* ContentController.performMemoryCleanup on the application
ContentController_performMemoryCleanup(td) ==
    [td EXCEPT !.imageCache = performMemoryCleanup(@, td.now)]

\* App.performMemoryCleanup
App_performMemoryCleanup(td) ==
    [ContentController_performMemoryCleanup(td) EXCEPT
        !.destroyed = @ \cup (CachedDocuments(td.pdfCache)
                                 \ CachedDocuments(performPdfMemoryCleanup(td.pdfCache, td.now))),
        !.pdfCache = performPdfMemoryCleanup(@, td.now),
        !.renderedPageCache = performPdfMemoryCleanup_pages(@, td.now)]

\* App.performMemoryMonitoring; high: the heap is used above 80 %
performMemoryMonitoring(td, high) ==
    IF high THEN App_performMemoryCleanup(td) ELSE td

\* time passes
TeardownTick ==
    /\ teardown.now < MaxTime
    /\ teardown' = [teardown EXCEPT !.now = @ + 1, !.event = TeardownEvent("tick", {})]

\* an image load completes: loadImageFromCache caches the image
TeardownImageLoaded ==
    \E path \in TeardownKeys :
        /\ ~MapHas(teardown.imageCache, path)
        /\ teardown' = [teardown EXCEPT
                           !.imageCache = loadImageFromCache(@, path, teardown.now),
                           !.event = TeardownEvent("imageLoaded", {})]

\* a PDF load completes with a new document: cachePDF
TeardownPdfLoaded ==
    \E path \in TeardownKeys :
        /\ teardown.documents < MaxTeardownLoads
        /\ ~MapHas(teardown.pdfCache, path)
        /\ teardown' = [teardown EXCEPT
                           !.documents = @ + 1,
                           !.pdfCache = cachePDF(@, path, teardown.documents + 1, teardown.now),
                           !.event = TeardownEvent("pdfLoaded", {})]

\* a page render completes: cacheRenderedPage
TeardownPageRendered ==
    \E key \in TeardownKeys :
        /\ teardown.pdfCache # <<>>
        /\ ~MapHas(teardown.renderedPageCache, key)
        /\ teardown' = [teardown EXCEPT
                           !.renderedPageCache = cacheRenderedPage(@, key, teardown.now),
                           !.event = TeardownEvent("pageRendered", {})]

\* the interval timer of App fires: performMemoryMonitoring
MemoryMonitorTimerFires ==
    \E high \in BOOLEAN :
        /\ 1 \in teardown.timers
        /\ teardown' = [performMemoryMonitoring(teardown, high) EXCEPT
                           !.event = TeardownEvent("memoryMonitorTimer", {})]

\* the interval timer of ContentController fires: performMemoryCleanup
ImageSweepTimerFires ==
    /\ 2 \in teardown.timers
    /\ teardown' = [ContentController_performMemoryCleanup(teardown) EXCEPT
                       !.event = TeardownEvent("imageSweepTimer", {})]

\* visibilitychange: ContentController sweeps when the page is hidden, App
\* monitors when it is visible again
VisibilityChange ==
    \E hidden \in BOOLEAN, high \in BOOLEAN :
        /\ hidden => ~high
        /\ teardown.unloads < MaxUnloads
        /\ teardown' = [(IF hidden THEN ContentController_performMemoryCleanup(teardown)
                         ELSE performMemoryMonitoring(teardown, high)) EXCEPT
                           !.event = TeardownEvent("visibilitychange", {})]

\* beforeunload: the listener of App (performAppCleanup), registered first,
\* then the listener of ContentController (cleanup)
BeforeUnload ==
    /\ teardown.unloads < MaxUnloads
    /\ teardown' = [cleanup(performAppCleanup(teardown)) EXCEPT
                       !.unloads = @ + 1,
                       !.event = TeardownEvent("beforeunload",
                                               CachedDocuments(teardown.pdfCache))]

varsLater == <<timed, viewer, catalog, paths, teardown>>

LaterIdle ==
    /\ timed = TimedIdle
    /\ viewer = ViewerInit
    /\ catalog = CatalogInit
    /\ paths = PathsInit
    /\ teardown = TeardownInit

\* ------------------------------------------------------------------------
\* Specifications
\* ------------------------------------------------------------------------
vars == <<varsUI, app, varsCache, retry, varsLater>>

Init ==
    /\ InitUI
    /\ app = AppInit(TRUE)
    /\ cacheUnderTest = "none"
    /\ CacheIdle
    /\ retry = RetryIdle
    /\ LaterIdle

Next ==
    \/ DoSetSelectedYear /\ UNCHANGED <<app, varsCache, retry, varsLater>>
    \/ DoSetSelectedMonth /\ UNCHANGED <<app, varsCache, retry, varsLater>>
    \/ DoSetSelectedQuestion /\ UNCHANGED <<app, varsCache, retry, varsLater>>
    \/ DoSetLoading /\ UNCHANGED <<app, varsCache, retry, varsLater>>
    \/ DoSetCurrentProblem /\ UNCHANGED <<app, varsCache, retry, varsLater>>
    \/ DoSetSolutionVisible /\ UNCHANGED <<app, varsCache, retry, varsLater>>
    \/ DoSetErrorMessage /\ UNCHANGED <<app, varsCache, retry, varsLater>>
    \/ DoSetPdfLoading /\ UNCHANGED <<app, varsCache, retry, varsLater>>
    \/ DoSetPdfError /\ UNCHANGED <<app, varsCache, retry, varsLater>>
    \/ DoReset /\ UNCHANGED <<app, varsCache, retry, varsLater>>
    \/ ListenerFault /\ UNCHANGED <<app, varsCache, retry, varsLater>>

Spec == Init /\ [][Next]_vars

\* SpecTopDown: as Spec, but the callers select top-down, as the dropdowns
\* of HeaderController do (a month only under a year, a question only under
\* a year and a month)
NextTopDown ==
    \/ DoSetSelectedYear /\ UNCHANGED <<app, varsCache, retry, varsLater>>
    \/ TopDownSetSelectedMonth /\ UNCHANGED <<app, varsCache, retry, varsLater>>
    \/ TopDownSetSelectedQuestion /\ UNCHANGED <<app, varsCache, retry, varsLater>>
    \/ DoSetLoading /\ UNCHANGED <<app, varsCache, retry, varsLater>>
    \/ DoSetCurrentProblem /\ UNCHANGED <<app, varsCache, retry, varsLater>>
    \/ DoSetSolutionVisible /\ UNCHANGED <<app, varsCache, retry, varsLater>>
    \/ DoSetErrorMessage /\ UNCHANGED <<app, varsCache, retry, varsLater>>
    \/ DoSetPdfLoading /\ UNCHANGED <<app, varsCache, retry, varsLater>>
    \/ DoSetPdfError /\ UNCHANGED <<app, varsCache, retry, varsLater>>
    \/ DoReset /\ UNCHANGED <<app, varsCache, retry, varsLater>>
    \/ ListenerFault /\ UNCHANGED <<app, varsCache, retry, varsLater>>

SpecTopDown == Init /\ [][NextTopDown]_vars

\* SpecApp: the assembled application; the page may start with the solution
\* button enabled or disabled
InitApp ==
    /\ ui = UIStateInit
    /\ stateChangeListeners = AppListeners
    /\ log = <<>>
    /\ lastCall = [op |-> "none", arg |-> NULL, pre |-> UIStateInit]
    /\ threw = FALSE
    /\ faulty = {}
    /\ app \in {AppInit(disabled) : disabled \in BOOLEAN}
    /\ cacheUnderTest = "none"
    /\ CacheIdle
    /\ retry = RetryIdle
    /\ LaterIdle

NextApp ==
    \/ YearChange /\ UNCHANGED <<varsCache, retry, varsLater>>
    \/ MonthChange /\ UNCHANGED <<varsCache, retry, varsLater>>
    \/ QuestionChange /\ UNCHANGED <<varsCache, retry, varsLater>>
    \/ ResetSelections /\ UNCHANGED <<varsCache, retry, varsLater>>
    \/ SolutionButtonClick /\ UNCHANGED <<varsCache, retry, varsLater>>
    \/ KeySolution /\ UNCHANGED <<varsCache, retry, varsLater>>
    \/ KeyEscape /\ UNCHANGED <<varsCache, retry, varsLater>>
    \/ ImagePreloadResolved /\ UNCHANGED <<varsCache, retry, varsLater>>
    \/ ImagePreloadRejected /\ UNCHANGED <<varsCache, retry, varsLater>>
    \/ ImageLoadEvent /\ UNCHANGED <<varsCache, retry, varsLater>>
    \/ ImageErrorEvent /\ UNCHANGED <<varsCache, retry, varsLater>>
    \/ PdfLoadResolved /\ UNCHANGED <<varsCache, retry, varsLater>>
    \/ PdfLoadRejected /\ UNCHANGED <<varsCache, retry, varsLater>>
    \/ BackoffElapsed /\ UNCHANGED <<varsCache, retry, varsLater>>

SpecApp == InitApp /\ [][NextApp]_vars

\* SpecCache: one of the three caches under loads, hits and the clock
InitCache ==
    /\ InitUI
    /\ app = AppInit(TRUE)
    /\ cacheUnderTest \in {"image", "pdf", "page"}
    /\ CacheIdle
    /\ retry = RetryIdle
    /\ LaterIdle

NextCache ==
    \/ Tick /\ UNCHANGED <<varsUI, app, retry, varsLater>>
    \/ ImageCacheHit /\ UNCHANGED <<varsUI, app, retry, varsLater>>
    \/ ImageLoadStart /\ UNCHANGED <<varsUI, app, retry, varsLater>>
    \/ ImageLoadDone /\ UNCHANGED <<varsUI, app, retry, varsLater>>
    \/ ImageLoadFail /\ UNCHANGED <<varsUI, app, retry, varsLater>>
    \/ LoadPDFFromCache /\ UNCHANGED <<varsUI, app, retry, varsLater>>
    \/ LoadPDFStart /\ UNCHANGED <<varsUI, app, retry, varsLater>>
    \/ LoadPDFDone /\ UNCHANGED <<varsUI, app, retry, varsLater>>
    \/ LoadPDFFail /\ UNCHANGED <<varsUI, app, retry, varsLater>>
    \/ HidePDF /\ UNCHANGED <<varsUI, app, retry, varsLater>>
    \/ HideTimerFires /\ UNCHANGED <<varsUI, app, retry, varsLater>>
    \/ ImageMemoryCleanup /\ UNCHANGED <<varsUI, app, retry, varsLater>>
    \/ ClearImageCache /\ UNCHANGED <<varsUI, app, retry, varsLater>>
    \/ ProbeAnswered /\ UNCHANGED <<varsUI, app, retry, varsLater>>
    \/ PdfMemoryCleanup /\ UNCHANGED <<varsUI, app, retry, varsLater>>
    \/ ClearPdfCache /\ UNCHANGED <<varsUI, app, retry, varsLater>>
    \/ RenderPageFromCache /\ UNCHANGED <<varsUI, app, retry, varsLater>>
    \/ RenderPageStart /\ UNCHANGED <<varsUI, app, retry, varsLater>>
    \/ RenderPageDone /\ UNCHANGED <<varsUI, app, retry, varsLater>>

SpecCache == InitCache /\ [][NextCache]_vars

\* SpecRetry: one call of a retry loop, with every course of its operation
InitRetry ==
    /\ InitUI
    /\ app = AppInit(TRUE)
    /\ cacheUnderTest = "none"
    /\ CacheIdle
    /\ retry \in RetryCalls
    /\ LaterIdle

NextRetry ==
    \/ CheckNetworkConnectivity /\ UNCHANGED <<varsUI, app, varsCache, varsLater>>
    \/ InvokeOperation /\ UNCHANGED <<varsUI, app, varsCache, varsLater>>
    \/ OperationResolves /\ UNCHANGED <<varsUI, app, varsCache, varsLater>>
    \/ OperationRejects /\ UNCHANGED <<varsUI, app, varsCache, varsLater>>
    \/ RetryTimerFires /\ UNCHANGED <<varsUI, app, varsCache, varsLater>>

SpecRetry == InitRetry /\ [][NextRetry]_vars

\* SpecTimeout: one call of App.withTimeout, with every course of its
\* promise and its timer
InitTimeout ==
    /\ InitUI
    /\ app = AppInit(TRUE)
    /\ cacheUnderTest = "none"
    /\ CacheIdle
    /\ retry = RetryIdle
    /\ timed \in WithTimeoutCalls
    /\ viewer = ViewerInit
    /\ catalog = CatalogInit
    /\ paths = PathsInit
    /\ teardown = TeardownInit

NextTimeout ==
    \/ TimedTick /\ UNCHANGED <<varsUI, app, varsCache, retry, viewer, catalog, paths, teardown>>
    \/ PromiseFulfils /\ UNCHANGED <<varsUI, app, varsCache, retry, viewer, catalog, paths, teardown>>
    \/ PromiseRejects /\ UNCHANGED <<varsUI, app, varsCache, retry, viewer, catalog, paths, teardown>>
    \/ TimeoutFires /\ UNCHANGED <<varsUI, app, varsCache, retry, viewer, catalog, paths, teardown>>

SpecTimeout == InitTimeout /\ [][NextTimeout]_vars

\* SpecPager: the PDFViewer under calls of its public methods, with the
\* asynchronous steps of its loads and renders and its timers interleaved
InitPager ==
    /\ InitUI
    /\ app = AppInit(TRUE)
    /\ cacheUnderTest = "none"
    /\ CacheIdle
    /\ retry = RetryIdle
    /\ timed = TimedIdle
    /\ viewer = ViewerInit
    /\ catalog = CatalogInit
    /\ paths = PathsInit
    /\ teardown = TeardownInit

NextPager ==
    \/ LoadPDF /\ UNCHANGED <<varsUI, app, varsCache, retry, timed, catalog, paths, teardown>>
    \/ ViewerProbeAnswers /\ UNCHANGED <<varsUI, app, varsCache, retry, timed, catalog, paths, teardown>>
    \/ GetDocumentResolves /\ UNCHANGED <<varsUI, app, varsCache, retry, timed, catalog, paths, teardown>>
    \/ GetDocumentRejects /\ UNCHANGED <<varsUI, app, varsCache, retry, timed, catalog, paths, teardown>>
    \/ LoadTimeoutFires /\ UNCHANGED <<varsUI, app, varsCache, retry, timed, catalog, paths, teardown>>
    \/ GetPageSettles /\ UNCHANGED <<varsUI, app, varsCache, retry, timed, catalog, paths, teardown>>
    \/ PageRenderSettles /\ UNCHANGED <<varsUI, app, varsCache, retry, timed, catalog, paths, teardown>>
    \/ NextPage /\ UNCHANGED <<varsUI, app, varsCache, retry, timed, catalog, paths, teardown>>
    \/ PreviousPage /\ UNCHANGED <<varsUI, app, varsCache, retry, timed, catalog, paths, teardown>>
    \/ GoToPage /\ UNCHANGED <<varsUI, app, varsCache, retry, timed, catalog, paths, teardown>>
    \/ RenderPage /\ UNCHANGED <<varsUI, app, varsCache, retry, timed, catalog, paths, teardown>>
    \/ ZoomIn /\ UNCHANGED <<varsUI, app, varsCache, retry, timed, catalog, paths, teardown>>
    \/ ZoomOut /\ UNCHANGED <<varsUI, app, varsCache, retry, timed, catalog, paths, teardown>>
    \/ SetZoom /\ UNCHANGED <<varsUI, app, varsCache, retry, timed, catalog, paths, teardown>>
    \/ ResetZoom /\ UNCHANGED <<varsUI, app, varsCache, retry, timed, catalog, paths, teardown>>
    \/ ResetZoomGetPageSettles /\ UNCHANGED <<varsUI, app, varsCache, retry, timed, catalog, paths, teardown>>
    \/ ViewerHidePDF /\ UNCHANGED <<varsUI, app, varsCache, retry, timed, catalog, paths, teardown>>
    \/ HideTimeoutFires /\ UNCHANGED <<varsUI, app, varsCache, retry, timed, catalog, paths, teardown>>

SpecPager == InitPager /\ [][NextPager]_vars

\* SpecPagerFair: SpecPager with fair timers and fair rendering of a loaded
\* document; the network (the HEAD request and getDocument) may stay silent
TimerSteps ==
    (LoadTimeoutFires \/ HideTimeoutFires) /\ UNCHANGED <<varsUI, app, varsCache, retry, timed, catalog, paths, teardown>>

RenderSteps ==
    (GetPageSettles \/ PageRenderSettles \/ ResetZoomGetPageSettles)
        /\ UNCHANGED <<varsUI, app, varsCache, retry, timed, catalog, paths, teardown>>

SpecPagerFair ==
    /\ InitPager
    /\ [][NextPager]_vars
    /\ WF_vars(TimerSteps)
    /\ WF_vars(RenderSteps)

\* SpecCatalog: the DataManager under loads of every dataset, failed loads
\* and retries
InitCatalog ==
    /\ InitUI
    /\ app = AppInit(TRUE)
    /\ cacheUnderTest = "none"
    /\ CacheIdle
    /\ retry = RetryIdle
    /\ timed = TimedIdle
    /\ viewer = ViewerInit
    /\ catalog = CatalogInit
    /\ paths = PathsInit
    /\ teardown = TeardownInit

NextCatalog ==
    \/ LoadCSVData /\ UNCHANGED <<varsUI, app, varsCache, retry, timed, viewer, paths, teardown>>
    \/ CsvFetchFails /\ UNCHANGED <<varsUI, app, varsCache, retry, timed, viewer, paths, teardown>>
    \/ CsvParseCompletes /\ UNCHANGED <<varsUI, app, varsCache, retry, timed, viewer, paths, teardown>>
    \/ RetryLoadCSVData /\ UNCHANGED <<varsUI, app, varsCache, retry, timed, viewer, paths, teardown>>
    \/ CsvRetryTimerFires /\ UNCHANGED <<varsUI, app, varsCache, retry, timed, viewer, paths, teardown>>

SpecCatalog == InitCatalog /\ [][NextCatalog]_vars

\* SpecPaths: the paths of every two ProblemData objects created in a row,
\* and the image path loadProblemForSelection builds
InitPaths ==
    /\ InitUI
    /\ app = AppInit(TRUE)
    /\ cacheUnderTest = "none"
    /\ CacheIdle
    /\ retry = RetryIdle
    /\ LaterIdle

NextPaths ==
    \/ DerivePaths /\ UNCHANGED <<varsUI, app, varsCache, retry, timed, viewer, catalog, teardown>>
    \/ LoadProblemForSelection /\ UNCHANGED <<varsUI, app, varsCache, retry, timed, viewer, catalog, teardown>>

SpecPaths == InitPaths /\ [][NextPaths]_vars

\* SpecTeardown: the running application with its timers, loads that fill
\* the caches, and beforeunload
InitTeardown ==
    /\ InitUI
    /\ app = AppInit(TRUE)
    /\ cacheUnderTest = "none"
    /\ CacheIdle
    /\ retry = RetryIdle
    /\ LaterIdle

NextTeardown ==
    \/ TeardownTick /\ UNCHANGED <<varsUI, app, varsCache, retry, timed, viewer, catalog, paths>>
    \/ TeardownImageLoaded /\ UNCHANGED <<varsUI, app, varsCache, retry, timed, viewer, catalog, paths>>
    \/ TeardownPdfLoaded /\ UNCHANGED <<varsUI, app, varsCache, retry, timed, viewer, catalog, paths>>
    \/ TeardownPageRendered /\ UNCHANGED <<varsUI, app, varsCache, retry, timed, viewer, catalog, paths>>
    \/ MemoryMonitorTimerFires /\ UNCHANGED <<varsUI, app, varsCache, retry, timed, viewer, catalog, paths>>
    \/ ImageSweepTimerFires /\ UNCHANGED <<varsUI, app, varsCache, retry, timed, viewer, catalog, paths>>
    \/ VisibilityChange /\ UNCHANGED <<varsUI, app, varsCache, retry, timed, viewer, catalog, paths>>
    \/ BeforeUnload /\ UNCHANGED <<varsUI, app, varsCache, retry, timed, viewer, catalog, paths>>

SpecTeardown == InitTeardown /\ [][NextTeardown]_vars

\* ------------------------------------------------------------------------
\* Properties of UIState (Spec, SpecTopDown)
\* ------------------------------------------------------------------------
\* number of calls of listener l for property p during the last operation
Count(l, p) ==
    Cardinality({i \in DOMAIN log : log[i].listener = l /\ log[i].property = p})

\* property p has another value than before the last operation
Changed(p) == lastCall.pre[p] # ui[p]

Registered == {stateChangeListeners[i] : i \in DOMAIN stateChangeListeners}

\* the consistency conditions of App.validateState on UIState fields u
StateConsistent(u) ==
    /\ u.selectedQuestion # NULL => (u.selectedYear # NULL /\ u.selectedMonth # NULL)
    /\ u.isSolutionVisible => u.currentProblem # NoProblem

CompleteSelection(u) ==
    u.selectedYear # NULL /\ u.selectedMonth # NULL /\ u.selectedQuestion # NULL

\* C1: from a complete selection, setSelectedYear(y) with another y ends with
\* selectedYear = y and month and question null, and every listener got one
\* notification per changed property and none for an unchanged one; a
\* setSelectedYear with the current year changes nothing and notifies nobody.
C1_YearCascadeNotifiesOncePerChange ==
    lastCall.op = "setSelectedYear" =>
        /\ (CompleteSelection(lastCall.pre) /\ lastCall.arg # lastCall.pre.selectedYear) =>
              /\ ui.selectedYear = lastCall.arg
              /\ ui.selectedMonth = NULL
              /\ ui.selectedQuestion = NULL
              /\ \A l \in Registered, p \in Properties :
                    Count(l, p) = IF Changed(p) THEN 1 ELSE 0
        /\ lastCall.arg = lastCall.pre.selectedYear =>
              (ui = lastCall.pre /\ log = <<>>)

C1_Witness ==
    /\ lastCall.op = "setSelectedYear"
    /\ CompleteSelection(lastCall.pre)
    /\ lastCall.arg \in Years
    /\ lastCall.arg # lastCall.pre.selectedYear
    /\ lastCall.pre.currentProblem # NoProblem
    /\ lastCall.pre.isSolutionVisible
    /\ Len(log) > 0

\* C2: when the callers select top-down, a selected question implies a
\* selected year and a selected month, between any two calls.
C2_QuestionImpliesYearAndMonth ==
    ui.selectedQuestion # NULL => (ui.selectedYear # NULL /\ ui.selectedMonth # NULL)

C2_Witness ==
    /\ lastCall.op = "setSelectedMonth"
    /\ lastCall.arg = NULL
    /\ CompleteSelection(lastCall.pre)
    /\ ui.selectedQuestion = NULL

\* C3: during a setSelectedYear, setSelectedMonth or setSelectedQuestion
\* cascade started in a consistent state, every state a listener sees when it
\* is notified satisfies both consistency conditions of App.validateState.
C3_ListenersSeeConsistentStates ==
    (/\ lastCall.op \in {"setSelectedYear", "setSelectedMonth", "setSelectedQuestion"}
     /\ StateConsistent(lastCall.pre))
    => \A i \in DOMAIN log : StateConsistent(log[i].state)

\* C5: reset() ends in the initial all-null/false state, every changed field
\* was notified, and no property was notified more than once.
C5_ResetReachesInitialState ==
    lastCall.op = "reset" =>
        /\ ui = UIStateInit
        /\ \A l \in Registered, p \in Properties :
              /\ Count(l, p) <= 1
              /\ Changed(p) => Count(l, p) = 1

C5_Witness ==
    /\ lastCall.op = "reset"
    /\ CompleteSelection(lastCall.pre)
    /\ lastCall.pre.isSolutionVisible
    /\ lastCall.pre.pdfError # NULL
    /\ lastCall.pre.isLoading
    /\ ui = UIStateInit

\* C6: setSelectedMonth(m) with another m resets question, current problem
\* and solution visibility and keeps the year; setSelectedQuestion(q) with
\* another q resets current problem and solution visibility and keeps year
\* and month.
C6_DownstreamResetUpstreamKept ==
    /\ (lastCall.op = "setSelectedMonth" /\ lastCall.arg # lastCall.pre.selectedMonth) =>
          /\ ui.selectedQuestion = NULL
          /\ ui.currentProblem = NoProblem
          /\ ~ui.isSolutionVisible
          /\ ui.selectedYear = lastCall.pre.selectedYear
    /\ (lastCall.op = "setSelectedQuestion" /\ lastCall.arg # lastCall.pre.selectedQuestion) =>
          /\ ui.currentProblem = NoProblem
          /\ ~ui.isSolutionVisible
          /\ ui.selectedYear = lastCall.pre.selectedYear
          /\ ui.selectedMonth = lastCall.pre.selectedMonth

\* C7: setLoading false -> true leaves errorMessage null; setPdfLoading
\* false -> true and setSolutionVisible true -> false leave pdfError null; a
\* call that does not change its flag changes neither error field.
C7_StartClearsStaleError ==
    /\ (lastCall.op = "setLoading" /\ ~lastCall.pre.isLoading /\ lastCall.arg)
          => ui.errorMessage = NULL
    /\ (lastCall.op = "setPdfLoading" /\ ~lastCall.pre.isPdfLoading /\ lastCall.arg)
          => ui.pdfError = NULL
    /\ (lastCall.op = "setSolutionVisible" /\ lastCall.pre.isSolutionVisible /\ ~lastCall.arg)
          => ui.pdfError = NULL
    /\ (\/ lastCall.op = "setLoading" /\ lastCall.arg = lastCall.pre.isLoading
        \/ lastCall.op = "setPdfLoading" /\ lastCall.arg = lastCall.pre.isPdfLoading
        \/ lastCall.op = "setSolutionVisible" /\ lastCall.arg = lastCall.pre.isSolutionVisible)
          => (ui.errorMessage = lastCall.pre.errorMessage /\ ui.pdfError = lastCall.pre.pdfError)

C7_Witness ==
    /\ lastCall.op = "setLoading"
    /\ ~lastCall.pre.isLoading
    /\ lastCall.arg
    /\ lastCall.pre.errorMessage # NULL
    /\ ui.isLoading

\* C8: when a listener throws, every notification still reaches every
\* registered listener with the same arguments, the setter returns normally
\* and the fields end as they would have without the throw.
C8_ThrowingListenerIsIsolated ==
    (lastCall.op # "none" /\ faulty # {}) =>
        LET n == Len(stateChangeListeners) IN
        /\ ~threw
        /\ ui = Apply(lastCall.op, lastCall.arg,
                      Machine(lastCall.pre, stateChangeListeners, {}, app)).ui
        /\ Len(log) % n = 0
        /\ \A i \in DOMAIN log :
              LET k == ((i - 1) % n) + 1
                  b == i - k + 1
              IN /\ log[i].listener = stateChangeListeners[k]
                 /\ log[i].property = log[b].property
                 /\ log[i].oldValue = log[b].oldValue
                 /\ log[i].newValue = log[b].newValue
                 /\ log[i].state = log[b].state

C8_Witness ==
    /\ lastCall.op = "setSelectedYear"
    /\ faulty = {stateChangeListeners[1]}
    /\ CompleteSelection(lastCall.pre)
    /\ lastCall.arg # lastCall.pre.selectedYear
    /\ Len(log) >= 3 * Len(stateChangeListeners)

\* ------------------------------------------------------------------------
\* Properties of the assembled application (SpecApp)
\* ------------------------------------------------------------------------
SelectionCascades == {"setSelectedYear", "setSelectedMonth", "setSelectedQuestion"}

\* a notification that a cascade started with argument arg makes for one of
\* its own changes: the selection it sets, or a reset of what depends on it
OwnChange(e, arg) ==
    CASE e.property \in {"selectedYear", "selectedMonth", "selectedQuestion"} ->
            e.newValue \in {arg, NULL}
      [] e.property = "currentProblem" -> e.newValue = NoProblem
      [] e.property = "isSolutionVisible" -> e.newValue = FALSE
      [] e.property = "pdfError" -> e.newValue = NULL
      [] OTHER -> FALSE

\* the notifications listener l received during the last operation, in order
Received(l) ==
    LET own == SelectSeq(log, LAMBDA e : e.listener = l)
    IN [i \in DOMAIN own |-> <<own[i].property, own[i].oldValue, own[i].newValue>>]

\* C4: in the assembled application, every notification delivered during a
\* setSelectedYear, setSelectedMonth or setSelectedQuestion cascade is for one
\* of the cascade's own changes, and every listener receives the same
\* notifications in the same order.
C4_CascadeNotInterleaved ==
    lastCall.op \in SelectionCascades =>
        /\ \A i \in DOMAIN log : OwnChange(log[i], lastCall.arg)
        /\ \A l \in Registered : Received(l) = Received(stateChangeListeners[1])

\* C9: when the last attempt of a solution PDF load has failed and
\* isPdfLoading is false again, pdfError is not null and the solution is not
\* visible.
C9_FailedLoadKeepsError ==
    (lastCall.op = "pdfLoad" /\ lastCall.arg = "rejected" /\ ~ui.isPdfLoading)
    => (ui.pdfError # NULL /\ ~ui.isSolutionVisible)

\* ------------------------------------------------------------------------
\* Properties of the caches (SpecCache)
\* ------------------------------------------------------------------------
Capacity(cache) ==
    CASE cache = "image" -> maxCacheSize
      [] cache = "pdf" -> maxPdfCacheSize
      [] cache = "page" -> maxPageCacheSize

\* the time of the last access the entry records
LastAccess(cache, e) == IF cache = "pdf" THEN e.lastAccess ELSE e.timestamp

\* a step from cache contents pre to post that inserts a new key into a full
\* cache removes exactly one entry, and that entry has the oldest last access
EvictsLeastRecentlyAccessed(cache, pre, post) ==
    (Len(pre) = Capacity(cache) /\ MapKeys(post) \ MapKeys(pre) # {})
    => LET removed == MapKeys(pre) \ MapKeys(post)
       IN /\ Cardinality(removed) = 1
          /\ \A r \in removed, i \in DOMAIN pre :
                LastAccess(cache, MapGet(pre, r)) <= LastAccess(cache, pre[i])

\* C10: inserting a new key into a full cache removes exactly one entry, the
\* one with the oldest last access, and a removed PDF document has been
\* destroyed exactly once.
C10_FullCacheEvictsLeastRecentlyAccessed ==
    [][/\ EvictsLeastRecentlyAccessed("image", imageCache, imageCache')
       /\ EvictsLeastRecentlyAccessed("pdf", pdfCache, pdfCache')
       /\ EvictsLeastRecentlyAccessed("page", renderedPageCache, renderedPageCache')
       /\ \A r \in MapKeys(pdfCache) \ MapKeys(pdfCache') :
             (Len(pdfCache) = maxPdfCacheSize /\ MapKeys(pdfCache') \ MapKeys(pdfCache) # {})
             => destroyCount'[MapGet(pdfCache, r).document] = 1]_vars

\* C11: after any sequence of loads, cache hits, sweeps and clears the image
\* cache holds at most maxCacheSize entries, the PDF-document cache at most
\* maxPdfCacheSize and the rendered-page cache at most maxPageCacheSize.
C11_CachesStayWithinCapacity ==
    /\ Len(imageCache) <= maxCacheSize
    /\ Len(pdfCache) <= maxPdfCacheSize
    /\ Len(renderedPageCache) <= maxPageCacheSize

\* a lookup that hit key k took the entry pre to the entry post at time t: the
\* entry records an access count one higher and t as the time of its last
\* access
BumpsAccess(cache, pre, post, t) ==
    /\ "accessCount" \in DOMAIN post
    /\ post.accessCount = pre.accessCount + 1
    /\ LastAccess(cache, post) = t

\* C12: a lookup that hits key k returns the value inserted under k, raises
\* the entry's accessCount by exactly 1 and sets its last-access time to the
\* time of the lookup, in the image cache, the PDF-document cache and the
\* rendered-page cache.
C12_HitBumpsAccessCountAndTime ==
    [][/\ cacheEvent'.op = "imageHit" =>
             BumpsAccess("image", MapGet(imageCache, cacheEvent'.key),
                         MapGet(imageCache', cacheEvent'.key), now')
       /\ cacheEvent'.op = "pdfHit" =>
             /\ BumpsAccess("pdf", MapGet(pdfCache, cacheEvent'.key),
                            MapGet(pdfCache', cacheEvent'.key), now')
             /\ pdfDocument' = MapGet(pdfCache, cacheEvent'.key).document
             /\ MapGet(pdfCache', cacheEvent'.key).document = pdfDocument'
       /\ cacheEvent'.op = "pageHit" =>
             /\ BumpsAccess("page", MapGet(renderedPageCache, cacheEvent'.key),
                            MapGet(renderedPageCache', cacheEvent'.key), now')
             /\ canvas' = cacheEvent'.key]_vars

\* the entry is idle and rarely used at time t, by the sweep of its cache
Idle(cache, e, t) ==
    CASE cache = "image" ->
            t - e.timestamp > imageMaxAge /\ e.accessCount < imageMinAccessCount
      [] cache = "pdf" -> t - e.lastAccess > pdfMaxAge /\ e.accessCount < pdfMinAccessCount
      [] cache = "page" -> t - e.timestamp > pageMaxAge

\* a sweep at time t took the cache from pre to post: it removed the idle
\* entries and no other, and the survivors are unchanged
SweepsExactlyIdle(cache, pre, post, t) ==
    /\ \A i \in DOMAIN pre : (pre[i].key \notin MapKeys(post)) <=> Idle(cache, pre[i], t)
    /\ post = SelectSeq(pre, LAMBDA e : e.key \in MapKeys(post))

\* C13: performMemoryCleanup removes an image entry iff it is older than
\* maxAge and was accessed less than 3 times; performPdfMemoryCleanup removes
\* and destroys a PDF entry iff it is older than maxAge and was accessed less
\* than 2 times, and removes a rendered page iff it is older than pageMaxAge;
\* every other entry survives unchanged.
C13_SweepRemovesExactlyIdleEntries ==
    [][/\ cacheEvent'.op = "imageSweep" =>
             SweepsExactlyIdle("image", imageCache, imageCache', now)
       /\ cacheEvent'.op = "pdfSweep" =>
             /\ SweepsExactlyIdle("pdf", pdfCache, pdfCache', now)
             /\ \A i \in DOMAIN pdfCache :
                   destroyCount'[pdfCache[i].document] =
                       IF Idle("pdf", pdfCache[i], now)
                       THEN destroyCount[pdfCache[i].document] + 1
                       ELSE destroyCount[pdfCache[i].document]
       /\ cacheEvent'.op = "pageSweep" =>
             SweepsExactlyIdle("page", renderedPageCache, renderedPageCache', now)]_vars

\* an image sweep has removed an entry and has left an entry of the same age
\* that was accessed 3 times
C13_Witness ==
    /\ cacheEvent.op = "imageSweep"
    /\ \E k \in cacheEvent.removed, i \in DOMAIN imageCache :
          /\ now - imageCache[i].timestamp > imageMaxAge
          /\ imageCache[i].accessCount >= imageMinAccessCount
          /\ imageCache[i].key # k

\* C14: a failed image load or PDF load adds no entry to its cache and changes
\* none; after a failed existence probe loadPDF does not go on to fetch the
\* document, and getDocument is called only after a probe that answered ok;
\* the path of the failed PDF load is not cached, so the next load of it
\* starts with the probe again.
C14_FailedLoadLeavesCacheUnchanged ==
    [][/\ cacheEvent'.op = "imageLoadFail" => imageCache' = imageCache
       /\ cacheEvent'.op \in {"pdfProbeFail", "pdfLoadFail"} =>
             /\ pdfCache' = pdfCache
             /\ ~MapHas(pdfCache', cacheEvent'.key)
             /\ pdfLoadPhase' = "idle"
             /\ pdfLoadingPath' = 0
       /\ (pdfLoadPhase' = "getDocument" /\ pdfLoadPhase # "getDocument") =>
             cacheEvent'.op = "pdfProbeOk"]_vars

\* the existence probe of a load has failed while the cache holds other
\* documents
C14_Witness ==
    /\ cacheEvent.op = "pdfProbeFail"
    /\ pdfCache # <<>>
    /\ ~MapHas(pdfCache, cacheEvent.key)
    /\ pdfLoadPhase = "idle"

\* C15: when a load of a path completes and finds the path cached by an
\* overlapping load of the same path that completed first, the cache keeps
\* every entry it held: the second completion evicts nothing.
C15_DuplicateLoadEvictsNothing ==
    [][(cacheEvent'.op = "imageLoadDone" /\ MapHas(imageCache, cacheEvent'.key))
       => /\ MapKeys(imageCache') = MapKeys(imageCache)
          /\ Cardinality({i \in DOMAIN imageCache' :
                             imageCache'[i].key = cacheEvent'.key}) = 1]_vars

\* C16: when no displayProblemImage call awaits its load any more, the image
\* on display, if any, is the image of the call that started last: the late
\* result of an earlier call has not replaced it.
C16_LatestImageWins ==
    (PendingPreloads(app) = 0 /\ app.imageSrc # NoPath)
    => app.imageSrc = app.currentImagePath

\* ------------------------------------------------------------------------
\* Properties of the retry loops (SpecRetry)
\* ------------------------------------------------------------------------
\* the outcomes of the attempts that failed
Failures == OperationErrors \cup {Offline}

Last(seq) == seq[Len(seq)]

\* C17: a retry loop given maxAttempts attempts (retryWithBackoff:
\* maxRetries; retryPdfLoadWithBackoff: maxRetries + 1) invokes the operation
\* at most maxAttempts times and never after an invocation succeeded; it
\* returns the value of the invocation that succeeded; when all maxAttempts
\* attempts failed it throws an error that carries the attempt count and the
\* message of the last failure.
C17_AttemptsBoundedOutcomeReported ==
    LET maxAttempts == IF retry.fn = "retryWithBackoff" THEN retry.maxRetries
                       ELSE retry.maxRetries + 1
        succeeded == {k \in DOMAIN retry.outcomes : retry.outcomes[k] \notin Failures}
        invoked == {k \in DOMAIN retry.outcomes : retry.outcomes[k] # Offline}
    IN retry.fn # "none" =>
          /\ retry.invocations <= maxAttempts
          /\ Len(retry.outcomes) <= maxAttempts
          /\ retry.invocations =
                Cardinality(invoked) + (IF retry.pc = "operation" THEN 1 ELSE 0)
          /\ \A k \in succeeded : k = Len(retry.outcomes) /\ retry.pc = "returned"
          /\ retry.pc = "returned" =>
                /\ succeeded # {}
                /\ retry.result = Last(retry.outcomes)
          /\ retry.pc = "thrown" =>
                /\ Len(retry.outcomes) = maxAttempts
                /\ succeeded = {}
                /\ retry.thrownAttempts = maxAttempts
                /\ retry.thrownMessage = Last(retry.outcomes)

\* retryPdfLoadWithBackoff(pdfPath, 2) has thrown after three failed loads
C17_Witness ==
    /\ retry.fn = "retryPdfLoadWithBackoff"
    /\ retry.maxRetries = maxRetries
    /\ retry.pc = "thrown"
    /\ retry.invocations = maxRetries + 1
    /\ retry.thrownAttempts = maxRetries + 1

\* C18: in App.retryWithBackoff as many waits have elapsed as attempts have
\* failed before the current one, so none before the first attempt and none
\* after the last; the wait after failed attempt k is at least
\* baseDelay * 2^(k-1); a call that returns from its third attempt has
\* waited at least baseDelay * 1 + baseDelay * 2.
C18_BackoffGrowsExponentially ==
    retry.fn = "retryWithBackoff" =>
        /\ Len(retry.waits) = retry.attempt - 1
        /\ \A k \in DOMAIN retry.waits : retry.waits[k] >= retry.baseDelay * (2 ^ (k - 1))
        /\ (retry.pc = "returned" /\ retry.attempt = 3) =>
              retry.waits[1] + retry.waits[2] >= retry.baseDelay * 1 + retry.baseDelay * 2
        /\ retry.pc = "thrown" => Len(retry.waits) = retry.maxRetries - 1

\* a call of retryWithBackoff has failed twice and has returned from its
\* third attempt
C18_Witness ==
    /\ retry.fn = "retryWithBackoff"
    /\ retry.pc = "returned"
    /\ retry.attempt = 3
    /\ retry.invocations = 3
    /\ Len(retry.waits) = 2

\* the step appends outcome o to the history of the attempts
Attempted(o) ==
    /\ Len(retry'.outcomes) = Len(retry.outcomes) + 1
    /\ Last(retry'.outcomes) = o

\* C19: App.retryWithBackoff checks connectivity before every retry and not
\* before the first attempt, and when a check reports offline the call ends
\* at once with the connectivity error: no wait, no further attempt.
C19_OfflineFailsFast ==
    [][/\ (retry'.invocations > retry.invocations /\ retry.fn = "retryWithBackoff") =>
             IF retry.attempt = 1 THEN retry.checks = 0 ELSE retry.pc = "connected"
       /\ Attempted(Offline) =>
             /\ retry'.pc = "thrown"
             /\ retry'.thrownMessage = Offline]_vars

\* C20: when an attempt fails because the resource is absent (404) or corrupt
\* (invalid PDF), the retry loop ends with that error after this attempt: no
\* wait, no further attempt.
C20_NonTransientFailureNotRetried ==
    [][(Attempted("404") \/ Attempted("invalidPdf")) =>
          /\ retry'.pc = "thrown"
          /\ retry'.thrownMessage = Last(retry'.outcomes)]_vars

\* ------------------------------------------------------------------------
\* Properties of App.withTimeout (SpecTimeout)
\* ------------------------------------------------------------------------
\* the promise withTimeout returns never changes once it is settled
SettlesOnce ==
    timed.result.state # "pending" => timed'.result = timed.result

\* C21: withTimeout settles exactly once.  When the promise settles while
\* the timer is pending the result is the promise's own outcome and the
\* timer is cleared, so no timer of the call stays pending; when the timer
\* fires first the result is the timeout error naming the operation, and a
\* later settlement of the promise leaves the result as it is.
C21_WithTimeoutSettlesOnce ==
    /\ [](timed.settlements <= 1)
    /\ [](timed.promise.state # "pending" => timed.timeoutId # "pending")
    /\ [](timed.timeoutId = "cleared" =>
              /\ timed.promise.state # "pending"
              /\ timed.result = timed.promise)
    /\ [](timed.timeoutId = "fired" =>
              timed.result = Rejected(TimeoutError(timed.operationName, timed.timeoutMs)))
    /\ [](timed.timeoutId = "pending" => timed.result.state = "pending")
    /\ [][SettlesOnce]_vars

\* the timer fired first and the promise settled afterwards
C21_Witness ==
    /\ timed.timeoutId = "fired"
    /\ timed.promise.state = "fulfilled"
    /\ timed.result.state = "rejected"
    /\ timed.settlements = 1

\* ------------------------------------------------------------------------
\* Properties of the pager (SpecPager)
\* ------------------------------------------------------------------------
\* a call of nextPage at the last page, of previousPage at page 1, or of
\* goToPage or renderPage with a page outside [1, totalPages], changes
\* neither currentPage nor the renders in flight nor the canvas
BoundaryCallsChangeNothing ==
    LET op == viewer'.event.op
        n == viewer'.event.n
        called == viewer'.calls = viewer.calls + 1
        boundary == \/ op = "nextPage" /\ viewer.currentPage >= viewer.totalPages
                    \/ op = "previousPage" /\ viewer.currentPage <= 1
                    \/ op \in {"goToPage", "renderPage"}
                       /\ (n < 1 \/ n > viewer.totalPages)
    IN (called /\ boundary) =>
          /\ viewer'.currentPage = viewer.currentPage
          /\ viewer'.pending = viewer.pending
          /\ viewer'.canvas = viewer.canvas
          /\ viewer'.rendered = viewer.rendered

PagerBoundaries == [][BoundaryCallsChangeNothing]_vars

\* C22: whenever a document is active, 1 <= currentPage <= totalPages, in
\* every state reachable through interleavings of loadPDF, renderPage,
\* nextPage, previousPage, goToPage and hidePDF with overlapping renders.
C22_CurrentPageWithinDocument ==
    viewer.pdfDocument # NoDocument =>
        /\ 1 <= viewer.currentPage
        /\ viewer.currentPage <= viewer.totalPages

\* the scale stays within [0.5, 3.0]
ScaleInRange ==
    ~Less(viewer.scale, MinScale) /\ ~Less(MaxScale, viewer.scale)

\* a document is loaded and op was just called (event.s is the scale before
\* the call for zoomIn and zoomOut, and the argument for setZoom)
JustCalled(op) ==
    viewer.event.op = op /\ viewer.pdfDocument # NoDocument

ZoomInOutMultiply ==
    /\ JustCalled("zoomIn") =>
          viewer.scale = MathMin(Times(viewer.event.s, Rat(5, 4)), MaxScale)
    /\ JustCalled("zoomOut") =>
          viewer.scale = MathMax(Times(viewer.event.s, Rat(4, 5)), MinScale)

\* after a zoom call on a page of the document, the current page is drawn or
\* being rendered under the scale of the viewer
ZoomRerenders ==
    ((JustCalled("zoomIn") \/ JustCalled("zoomOut") \/ JustCalled("setZoom"))
       /\ viewer.currentPage \in 1..viewer.totalPages
       /\ ~Less(viewer.event.s, MinScale) /\ ~Less(MaxScale, viewer.event.s)) =>
        LET key == CacheKey(viewer.pdfDocument, viewer.currentPage, viewer.scale)
        IN \/ viewer.canvas = key
           \/ \E r \in viewer.pending : r.kind = "renderPage" /\ r.cacheKey = key

SetZoomClamps ==
    JustCalled("setZoom") =>
        viewer.scale = MathMax(MinScale, MathMin(viewer.event.s, MaxScale))

\* C23: the zoom stays clamped: 0.5 <= scale <= 3.0 always; zoomIn sets the
\* scale to min(scale * 1.25, 3.0) and zoomOut to max(scale * 0.8, 0.5);
\* setZoom(s) with s outside the range yields the scale clamped into it; and
\* a change of the scale re-renders the current page under the new scale.
C23_ZoomStaysClamped ==
    /\ ScaleInRange
    /\ ZoomInOutMultiply
    /\ SetZoomClamps
    /\ ZoomRerenders

\* loadPDF(path) has just returned after loading the document
LoadCompleted == viewer.event.op = "loadPDFResolved"

LoadedDocumentCached ==
    LoadCompleted => MapHas(viewer.pdfCache, viewer.event.n)

LoadResetsPage ==
    LoadCompleted => /\ viewer.currentPage = 1
                     /\ viewer.totalPages = numPages(viewer.event.n)

LoadResetsScale ==
    LoadCompleted => viewer.scale = One

\* C24: when loadPDF(path) completes successfully, from the network or from
\* the cache, currentPage = 1, scale = 1.0, totalPages is the page count of
\* the document, and the document is in the PDF-document cache.
C24_LoadResetsPager ==
    /\ LoadedDocumentCached
    /\ LoadResetsPage
    /\ LoadResetsScale

\* the timer of hidePDF leaves the pager state (1, 0, 1.0)
HideResetsPager ==
    viewer.event.op = "hidden" =>
        /\ viewer.pdfDocument = NoDocument
        /\ viewer.currentPage = 1
        /\ viewer.totalPages = 0
        /\ viewer.scale = One

\* hidePDF and its timer leave the PDF-document cache as it is
HideKeepsCache ==
    viewer'.event.op \in {"hidePDF", "hidden"} => viewer'.pdfCache = viewer.pdfCache

\* a loadPDF call served from the cache makes a document active that was
\* not destroyed
ReopenedDocumentUsable ==
    (viewer.event.op = "loadPDF" /\ MapHas(viewer.pdfCache, viewer.event.n)) =>
        /\ viewer.pdfDocument = MapGet(viewer.pdfCache, viewer.event.n).document
        /\ viewer.pdfDocument \notin viewer.destroyed

\* C25: hidePDF resets the pager state to (1, 0, 1.0) and removes nothing
\* from the PDF-document cache, and a later loadPDF of the same path is
\* served from the cache with a document that is not destroyed.
C25_ClosedDocumentReusable ==
    /\ []HideResetsPager
    /\ [][HideKeepsCache]_vars
    /\ []ReopenedDocumentUsable

\* C26: every loadPDF call terminates: with fair timers, and even if the
\* network never answers, isLoading returns to false, so that no later
\* loadPDF call is blocked forever.
C26_LoadTerminates == viewer.isLoading ~> ~viewer.isLoading

\* while loadPDF awaits the HEAD request, only the answer of the request
\* ends the wait: no call of a public method and no timer does
OnlyTheProbeEndsTheWait ==
    [][(viewer.load.phase = "probe" /\ viewer'.load.phase # "probe")
          => viewer'.event.op \in {"probeOk", "loadPDFRejected"}]_vars

\* once getDocument was called, the 15 s timer ends the load
GetDocumentTerminates == (viewer.load.phase = "getDocument") ~> ~viewer.isLoading

\* ------------------------------------------------------------------------
\* Properties of the catalog (SpecCatalog)
\* ------------------------------------------------------------------------
Range(seq) == {seq[i] : i \in DOMAIN seq}

\* the triple is a record of the loaded catalog
Retained(year, month, questionNumber) ==
    /\ catalog.isDataLoaded
    /\ \E i \in DOMAIN catalog.csvData :
          catalog.csvData[i] = [year |-> year, month |-> month,
                                questionNumber |-> questionNumber]

\* C27: every record of a loaded catalog exists for problemExists and is
\* listed by getAvailableYears, getMonthsForYear and getQuestionsForYearMonth;
\* conversely every listed value comes from a record, and problemExists is
\* false for every triple that is not a record.
C27_QueriesAgreeWithRecords ==
    /\ catalog.isDataLoaded =>
          \A i \in DOMAIN catalog.csvData :
              LET r == catalog.csvData[i]
              IN /\ problemExists(catalog, r.year, r.month, r.questionNumber)
                 /\ r.year \in Range(getAvailableYears(catalog))
                 /\ r.month \in Range(getMonthsForYear(catalog, r.year))
                 /\ r.questionNumber
                        \in Range(getQuestionsForYearMonth(catalog, r.year, r.month))
    /\ \A y \in Range(getAvailableYears(catalog)) :
          \E i \in DOMAIN catalog.csvData : catalog.csvData[i].year = y
    /\ \A y \in QueryArgs :
          \A m \in Range(getMonthsForYear(catalog, y)) :
              \E i \in DOMAIN catalog.csvData :
                  catalog.csvData[i].year = y /\ catalog.csvData[i].month = m
    /\ \A y \in QueryArgs, m \in QueryArgs :
          \A q \in Range(getQuestionsForYearMonth(catalog, y, m)) : Retained(y, m, q)
    /\ \A y \in QueryArgs, m \in QueryArgs, q \in QueryArgs :
          problemExists(catalog, y, m, q) => Retained(y, m, q)

\* a loaded catalog of two records with different years
C27_Witness ==
    /\ catalog.isDataLoaded
    /\ Len(catalog.csvData) = 2
    /\ Len(getAvailableYears(catalog)) = 2
    /\ problemExists(catalog, catalog.csvData[2].year, catalog.csvData[2].month,
                     catalog.csvData[2].questionNumber)

\* seq is strictly increasing (sign 1) or strictly decreasing (sign -1) by
\* the numbers its elements denote
StrictlyOrdered(seq, sign) ==
    \A i \in 1..(Len(seq) - 1) : sign * (parseInt(seq[i + 1]) - parseInt(seq[i])) > 0

\* seq is ordered by the numbers its elements denote, equal numbers allowed
WeaklyOrdered(seq, sign) ==
    \A i \in 1..(Len(seq) - 1) : sign * (parseInt(seq[i + 1]) - parseInt(seq[i])) >= 0

ListingsWeaklyOrdered ==
    /\ WeaklyOrdered(getAvailableYears(catalog), -1)
    /\ \A y \in QueryArgs : WeaklyOrdered(getMonthsForYear(catalog, y), 1)
    /\ \A y \in QueryArgs, m \in QueryArgs :
          WeaklyOrdered(getQuestionsForYearMonth(catalog, y, m), 1)

\* C28: for every accepted dataset and row order, getAvailableYears is
\* strictly descending by numeric value, and getMonthsForYear and
\* getQuestionsForYearMonth are strictly ascending: no two elements of a
\* listing denote the same number.
C28_ListingsStrictlyOrdered ==
    /\ StrictlyOrdered(getAvailableYears(catalog), -1)
    /\ \A y \in QueryArgs : StrictlyOrdered(getMonthsForYear(catalog, y), 1)
    /\ \A y \in QueryArgs, m \in QueryArgs :
          StrictlyOrdered(getQuestionsForYearMonth(catalog, y, m), 1)

\* the cell is a non-empty integer numeral
IsInteger(cell) ==
    /\ trim(cell) # <<>>
    /\ \A i \in DOMAIN trim(cell) : trim(cell)[i] \in DigitChars

\* the row passes validation: at least 3 cells, all three non-empty and
\* integer, year in 2000..2100, month in 1..12, question in 1..999
PassesValidation(row) ==
    /\ Len(row) >= 3
    /\ IsInteger(row[1]) /\ IsInteger(row[2]) /\ IsInteger(row[3])
    /\ Number(row[1]) \in 2000..2100
    /\ Number(row[2]) \in 1..12
    /\ Number(row[3]) \in 1..999

\* Papa.parse has just delivered the rows of catalog.event.rows
Delivered == catalog.event.op \in {"resolved", "rejectedNoValidRows"}

\* the records of the rows that satisfy valid, in order, duplicates kept
RecordsOf(rows, valid(_)) ==
    [i \in DOMAIN SelectSeq(rows, valid) |-> Record(SelectSeq(rows, valid)[i])]

\* a delivery fails iff no row satisfies valid, and otherwise retains the
\* records of exactly the rows that do, counted by getDataStatistics
Retains(valid(_)) ==
    Delivered =>
        IF SelectSeq(catalog.event.rows, valid) = <<>>
        THEN catalog.event.op = "rejectedNoValidRows"
        ELSE /\ catalog.event.op = "resolved"
             /\ catalog.isDataLoaded
             /\ catalog.csvData = RecordsOf(catalog.event.rows, valid)
             /\ getDataStatistics(catalog).totalProblems
                    = Len(SelectSeq(catalog.event.rows, valid))

\* with the test of the code for 'integer' (parseInt is not NaN)
RetainsRowsTheFilterAccepts == Retains(IsValidRow)

\* a load that fails does not mark the catalog loaded
FailedLoadDoesNotMarkLoaded ==
    catalog'.event.op \in {"rejected", "rejectedNoValidRows"} =>
        (catalog'.isDataLoaded => catalog.isDataLoaded)

\* C29: a dataset in which no row passes validation makes the load fail
\* and does not mark the catalog loaded; a dataset mixing valid and invalid
\* rows retains exactly the valid rows, duplicates kept, and
\* getDataStatistics().totalProblems is the number of retained rows.
C29_LoadRetainsExactlyValidRows ==
    /\ []Retains(PassesValidation)
    /\ [][FailedLoadDoesNotMarkLoaded]_vars

FailedLoadsNeverMarkLoaded == [][FailedLoadDoesNotMarkLoaded]_vars

\* the stored field is a numeral within lo..hi
NumericWithin(field, lo, hi) ==
    Number(field) # NaN /\ Number(field) >= lo /\ Number(field) <= hi

LoadedCatalogNotEmpty ==
    catalog.isDataLoaded => catalog.csvData # <<>>

\* C30: whenever isDataLoaded is true the record set is non-empty and every
\* stored record has year, month and questionNumber that are numeric strings
\* within range, so that the constructor of ProblemData accepts it.
C30_StoredRecordsNumericInRange ==
    catalog.isDataLoaded =>
        /\ catalog.csvData # <<>>
        /\ \A i \in DOMAIN catalog.csvData :
              LET r == catalog.csvData[i]
              IN /\ NumericWithin(r.year, 2000, 2100)
                 /\ NumericWithin(r.month, 1, 12)
                 /\ NumericWithin(r.questionNumber, 1, 999)
                 /\ ~ProblemData_throws(r.year, r.month, r.questionNumber)

\* ------------------------------------------------------------------------
\* Properties of the resource paths (SpecPaths)
\* ------------------------------------------------------------------------
\* the stem of the paths of a triple: year, then month and question with
\* leading zeros up to two digits
Stem(triple) == Numeral(triple[1]) \o ZeroPadded(triple[2], 2) \o ZeroPadded(triple[3], 2)

\* C31: for a year in 2000..2100, a month in 1..12 and a question in 1..999
\* given as normalized decimal strings, getImagePath() is "mun/" + year +
\* two-digit month + two-digit question + ".png" and getPDFPath() is the same
\* stem under "sol/" with ".pdf"; the same triple always gives the same
\* paths, distinct triples give distinct paths, and loadProblemForSelection
\* builds the image path getImagePath returns for the same triple.
C31_PathsZeroPaddedAndDistinct ==
    /\ paths.last # NoneDerived =>
          /\ paths.last.imagePath
                = <<"m", "u", "n", "/">> \o Stem(paths.last.triple) \o <<".", "p", "n", "g">>
          /\ paths.last.pdfPath
                = <<"s", "o", "l", "/">> \o Stem(paths.last.triple) \o <<".", "p", "d", "f">>
    /\ paths.earlier # NoneDerived =>
          /\ paths.earlier.triple = paths.last.triple
                => /\ paths.earlier.imagePath = paths.last.imagePath
                   /\ paths.earlier.pdfPath = paths.last.pdfPath
          /\ paths.earlier.triple # paths.last.triple
                => /\ paths.earlier.imagePath # paths.last.imagePath
                   /\ paths.earlier.pdfPath # paths.last.pdfPath
    /\ paths.selection.triple = paths.last.triple
          => paths.selection.imagePath = paths.last.imagePath

\* paths were derived for month 1 with question 11 and for month 11 with
\* question 1 of the same year, and loadProblemForSelection built the path of
\* the last triple
C31_Witness ==
    /\ paths.earlier.triple = <<2100, 1, 11>>
    /\ paths.last.triple = <<2100, 11, 1>>
    /\ paths.last.imagePath = <<"m", "u", "n", "/", "2", "1", "0", "0", "1", "1", "0", "1",
                                ".", "p", "n", "g">>
    /\ paths.selection.triple = paths.last.triple

\* ------------------------------------------------------------------------
\* Properties of the teardown (SpecTeardown)
\* ------------------------------------------------------------------------
\* when beforeunload has been handled, both interval fields are null, no
\* interval timer runs, the three caches are empty and every document that
\* was cached, then or earlier, is destroyed
CleanAfterUnload ==
    teardown.event.op = "beforeunload" =>
        /\ teardown.memoryMonitorInterval = 0
        /\ teardown.memoryCleanupInterval = 0
        /\ teardown.timers = {}
        /\ teardown.imageCache = <<>>
        /\ teardown.pdfCache = <<>>
        /\ teardown.renderedPageCache = <<>>
        /\ teardown.event.cached \subseteq teardown.destroyed
        /\ \A document \in 1..teardown.documents : document \in teardown.destroyed

\* once performAppCleanup has run, no interval timer fires
NoTimerAfterCleanup ==
    [][teardown.unloads > 0
          => teardown'.event.op \notin {"memoryMonitorTimer", "imageSweepTimer"}]_vars

\* C32: after App.performAppCleanup has run, the memory-monitor timer and the
\* image-sweep timer are cancelled and never fire again, the image cache, the
\* document cache and the rendered-page cache are empty, and every document
\* that was cached has been destroyed.
C32_TeardownCancelsTimersAndEmptiesCaches ==
    []CleanAfterUnload /\ NoTimerAfterCleanup

\* beforeunload was handled while two documents were cached
C32_Witness ==
    /\ teardown.event.op = "beforeunload"
    /\ Cardinality(teardown.event.cached) = 2
    /\ teardown.destroyed = teardown.event.cached
    /\ teardown.timers = {}

\* a load that completes after the cleanup fills a cache again
RefilledAfterCleanup ==
    /\ teardown.unloads > 0
    /\ teardown.pdfCache # <<>>
    /\ teardown.imageCache # <<>>

\* ------------------------------------------------------------------------
\* Properties of the solution button and of the solution's visibility
\* (SpecApp)
\* ------------------------------------------------------------------------
\* the step is a click on the solution button
Clicked == lastCall'.op = "click"

\* a click while the solution is visible hides it and starts no PDF load
ClickHides ==
    [][(Clicked /\ ui.isSolutionVisible)
          => (~ui'.isSolutionVisible /\ app'.solutionLoads = app.solutionLoads)]_vars

\* a click while the solution is hidden and a problem is current starts one
\* PDF load, for that problem
ClickStartsOneLoad ==
    [][(Clicked /\ ~ui.isSolutionVisible /\ ui.currentProblem # NoProblem)
          => /\ Len(app'.solutionLoads) = Len(app.solutionLoads) + 1
             /\ app'.solutionLoads[Len(app'.solutionLoads)].path
                   = getPDFPath(ui.currentProblem)]_vars

\* as ClickStartsOneLoad, for a click while the viewer is not loading
ClickStartsOneLoadWhenIdle ==
    [][(Clicked /\ ~ui.isSolutionVisible /\ ui.currentProblem # NoProblem /\ ~app.isLoading)
          => /\ Len(app'.solutionLoads) = Len(app.solutionLoads) + 1
             /\ app'.solutionLoads[Len(app'.solutionLoads)].path
                   = getPDFPath(ui.currentProblem)]_vars

\* C33: one click on the solution button toggles the solution: if it was
\* visible, it is hidden once the click handlers of ContentController and App
\* have run and no PDF load has been started; if it was hidden and a problem
\* is current, exactly one PDF load is started for that problem.
C33_ClickTogglesSolution ==
    ClickHides /\ ClickStartsOneLoad

\* ------------------------------------------------------------------------
\* Properties of the loads of PDFViewer and their timers (SpecPager)
\* ------------------------------------------------------------------------
\* loadPDF has just returned to its caller without throwing: at the
\* isLoading guard, or after renderPage(1)
LoadPDFReturned == viewer.event.op \in {"loadPDFIgnored", "loadPDFResolved"}

\* C34: whenever loadPDF(path) returns without throwing, the document of
\* path is the active document (pdfDocument not null, totalPages >= 1); a
\* call made while another load is in progress does not return before a
\* document is loaded.
C34_LoadPDFReturnsWithDocument ==
    LoadPDFReturned =>
        /\ viewer.pdfDocument # NoDocument
        /\ viewer.pdfDocument.path = viewer.event.n
        /\ viewer.totalPages >= 1

\* a loadPDF call returned at the isLoading guard while the first load of the
\* viewer was awaiting its HEAD request
ReturnedWhileLoading ==
    /\ viewer.event.op = "loadPDFIgnored"
    /\ viewer.load.phase = "probe"
    /\ viewer.pdfDocument = NoDocument

\* App.loadSolutionPDF, called while ContentController's load was in flight,
\* has shown the solution and cleared isPdfLoading (SpecApp)
ShownWhileLoading ==
    /\ lastCall.op = "click"
    /\ app.isLoading
    /\ ui.isSolutionVisible
    /\ ~ui.isPdfLoading

\* the documents the step destroys
NewlyDestroyed == viewer'.destroyed \ viewer.destroyed

\* the step is the expiry of a 15 s timer after its race has ended
LateLoadTimeout == viewer'.event.op = "loadTimeout"

\* C35: the 15 s timer of loadPDF aborts only a load that is still in
\* flight: when the document was loaded before the timer expires, the expiry
\* destroys neither the active document nor a cached one.
C35_TimeoutSparesLoadedDocument ==
    [][LateLoadTimeout
          => \A document \in NewlyDestroyed :
                /\ document # viewer.pdfDocument
                /\ document \notin CachedDocuments(viewer.pdfCache)]_vars

\* while getDocument is awaited, the expiry of the timer ends the load
TimeoutAbortsLoadInFlight ==
    [][(viewer.load.phase = "getDocument" /\ viewer'.event.op = "loadPDFRejected"
           /\ NewlyDestroyed # {})
          => (~viewer'.isLoading /\ viewer'.pdfDocument = viewer.pdfDocument)]_vars

\* a loadPDF call has just completed with a live document that was not the
\* active one at the hidePDF call whose timer is pending
LoadedSinceHide ==
    /\ viewer.event.op = "loadPDFResolved"
    /\ viewer.hideTimers > 0
    /\ viewer.pdfDocument # viewer.hidden
    /\ viewer.pdfDocument # NoDocument
    /\ viewer.pdfDocument.path = viewer.event.n
    /\ viewer.pdfDocument \notin viewer.destroyed

\* C36: the teardown hidePDF defers by 300 ms affects only the document that
\* was active when hidePDF was called: when a loadPDF has completed since,
\* the expiry of the timer does not destroy the new document, does not set
\* pdfDocument to null and does not reset currentPage, totalPages and scale.
C36_HideSparesLaterLoad ==
    [][(LoadedSinceHide /\ viewer'.event.op = "hidden")
          => /\ viewer'.pdfDocument = viewer.pdfDocument
             /\ viewer.pdfDocument \notin viewer'.destroyed
             /\ viewer'.currentPage = viewer.currentPage
             /\ viewer'.totalPages = viewer.totalPages
             /\ viewer'.scale = viewer.scale]_vars

\* the sweep of performPdfMemoryCleanup destroys no document that is the
\* active one
SweepSparesActiveDocument ==
    [][(cacheEvent'.op = "pdfSweep" /\ pdfDocument # 0)
          => destroyCount'[pdfDocument] = destroyCount[pdfDocument]]_vars

\* the eviction of cachePDF destroys no document that is the active one: the
\* document just loaded is active and has not been destroyed
EvictionSparesActiveDocument ==
    [][(cacheEvent'.op = "pdfLoadDone")
          => /\ pdfDocument' = cacheEvent'.key
             /\ destroyCount'[pdfDocument'] = 0
             /\ pdfDocument' \notin cacheEvent'.removed]_vars

\* C37: cache maintenance never destroys the active document: neither the sweep
\* of performPdfMemoryCleanup nor the eviction of cachePDF calls destroy() on
\* the document this.pdfDocument refers to
C37_MaintenanceSparesActiveDocument ==
    SweepSparesActiveDocument /\ EvictionSparesActiveDocument

\* the active document has been destroyed by a sweep and is still the active one
ActiveDocumentSwept ==
    /\ cacheEvent.op = "pdfSweep"
    /\ pdfDocument # 0
    /\ pdfDocument \in cacheEvent.removed
    /\ destroyCount[pdfDocument] > 0

\* C38: every entry of renderedPageCache stored under the key (document,
\* page n, scale s) holds the bitmap of page n of that document at scale s
C38_CachedBitmapMatchesKey ==
    \A e \in viewer.stored : e.bitmap = e.key

\* getCachedRenderedPage returns no entry as old as PageMaxAge
HitsAreYoung ==
    [][cacheEvent'.op = "pageHit"
          => now - MapGet(renderedPageCache, cacheEvent'.key).timestamp < PageMaxAge]_vars

\* the canvas shows, from the cache, a bitmap that was rendered at another
\* scale than the one of the viewer
StaleBitmapShown ==
    /\ viewer.pending = {}
    /\ viewer.canvas \notin viewer.rendered
    /\ viewer.canvas # NoKey
    /\ \E e \in viewer.stored : e.bitmap = viewer.canvas /\ e.key[3] = viewer.scale
                                   /\ e.bitmap[3] # viewer.scale

\* C39: in every quiescent state, a visible solution implies a current
\* problem; a PDF load that completes after the selection was changed or reset
\* does not make the solution visible
C39_VisibleSolutionHasProblem ==
    ui.isSolutionVisible => ui.currentProblem # NoProblem

\* a PDF load has just resolved and left the solution visible with no current
\* problem and no load in flight
SolutionShownAfterReset ==
    /\ lastCall.op = "pdfLoad" /\ lastCall.arg = "resolved"
    /\ ui.isSolutionVisible
    /\ ui.currentProblem = NoProblem
    /\ app.solutionLoads = <<>>

====
